---- MODULE Spec2Model ----
(***************************************************************************)
(* serde_polars: conversion between Vec<T> and Polars DataFrames.          *)
(*                                                                         *)
(* The module models src/src/lib.rs (to_dataframe, from_dataframe, the     *)
(* TypeDetector shape probe, the forward and reverse chrono column         *)
(* transforms, the dictionary normalisation) and src/src/version_compat.rs *)
(* (the engine bridge).  serde_arrow, chrono, arrow and polars are         *)
(* libraries the code calls; each call is modelled by what the called      *)
(* function does on the values the model carries.                          *)
(*                                                                         *)
(* Numbers.  TLC integers are 32 bit, an Arrow timestamp is an i64 count   *)
(* of nanoseconds.  A count is therefore carried as the triple             *)
(* [days, secs, ns] with 0 <= secs < 86400 and 0 <= ns < 10^9, which       *)
(* denotes days*86400*10^9 + secs*10^9 + ns; the i64 range is the pair of  *)
(* triples I64_MIN, I64_MAX and "fits in an i64" is a lexicographic        *)
(* comparison.  No value is scaled.                                        *)
(*                                                                         *)
(* Text.  A string is carried as [form, s, dt]: form names the lexical     *)
(* shape ("str" for text that is no date or time, else the chrono format   *)
(* the text is written in), s the content of a "str" text, dt the numbers  *)
(* written in a date/time text.  Formatting computes dt from a count and   *)
(* parsing computes a count from dt; a parser accepts the forms its        *)
(* chrono format accepts and rejects the others.                           *)
(***************************************************************************)
EXTENDS Integers, Sequences, FiniteSets, TLC

\* ------------------------------------------------------------------------
\* Bounds of the model
\* ------------------------------------------------------------------------

\* Longest Vec<T> handed to to_dataframe.
MaxRows == 2

\* ------------------------------------------------------------------------
\* let bindings
\* ------------------------------------------------------------------------

\* let x = a; F(x): a is evaluated once and F reads its value.
Let1(a, F(_)) == CHOOSE y \in { F(x) : x \in { a } } : TRUE

\* let (x1, x2) = (a, b); F(x1, x2)
Let2(a, b, F(_, _)) == CHOOSE y \in { F(x1, x2) : x1 \in { a }, x2 \in { b } } : TRUE

\* let (x1, x2, x3) = (a, b, c); F(x1, x2, x3)
Let3(a, b, c, F(_, _, _)) ==
    CHOOSE y \in { F(x1, x2, x3) : x1 \in { a }, x2 \in { b }, x3 \in { c } } : TRUE

\* ------------------------------------------------------------------------
\* Values
\* ------------------------------------------------------------------------

\* The numbers of a calendar date and time of day.
DateTimeOf(y, m, d, h, mi, sec, ns) ==
    [y |-> y, m |-> m, d |-> d, h |-> h, mi |-> mi, sec |-> sec, ns |-> ns]

DateOf(y, m, d) == DateTimeOf(y, m, d, 0, 0, 0, 0)

ZeroDT == DateTimeOf(0, 0, 0, 0, 0, 0, 0)

\* An i64 nanosecond count, as days, seconds of the day, nanoseconds.
Nanos(days, secs, ns) == [days |-> days, secs |-> secs, ns |-> ns]

ZeroTS == Nanos(0, 0, 0)

\* One value: a field of a Rust record, or one slot of an Arrow array.
\* null is Option::None / an invalid slot.  The other fields carry the
\* payload its type uses and are zero otherwise.
Val(null, n, s, form, dt, ts) ==
    [null |-> null, n |-> n, s |-> s, form |-> form, dt |-> dt, ts |-> ts]

NullV == Val(TRUE, 0, "", "", ZeroDT, ZeroTS)

IntV(n) == Val(FALSE, n, "", "", ZeroDT, ZeroTS)

\* A float is carried by its bit pattern, named by a token.
FloatV(bits) == Val(FALSE, 0, bits, "", ZeroDT, ZeroTS)

BoolV(b) == Val(FALSE, IF b THEN 1 ELSE 0, "", "", ZeroDT, ZeroTS)

\* Text that is not written in a date or time format.
StrV(s) == Val(FALSE, 0, s, "str", ZeroDT, ZeroTS)

\* Text written in a date or time format.
TextV(form, dt) == Val(FALSE, 0, "", form, dt, ZeroTS)

\* A chrono value (NaiveDate, NaiveDateTime, DateTime<Utc>) of a record.
ChronoV(dt) == Val(FALSE, 0, "", "", dt, ZeroTS)

\* A slot of a Date32Array: i32 days since 1970-01-01.
Date32V(days) == Val(FALSE, days, "", "", ZeroDT, ZeroTS)

\* A slot of a TimestampNanosecondArray.
TimestampV(ts) == Val(FALSE, 0, "", "", ZeroDT, ts)

\* The lexical forms of date and time text.
\*   FmtDate       %Y-%m-%d, the Debug/Display form of NaiveDate
\*   FmtNaive      %Y-%m-%dT%H:%M:%S%.f, the form of NaiveDateTime
\*   FmtRfcZ       RFC 3339 with the zone written Z (serde of DateTime<Utc>)
\*   FmtRfcOffset  RFC 3339 with the zone written +00:00 (to_rfc3339)
FmtDate == "%Y-%m-%d"

FmtNaive == "%Y-%m-%dT%H:%M:%S%.f"

FmtRfcZ == "rfc3339 Z"

FmtRfcOffset == "rfc3339 +00:00"

\* ------------------------------------------------------------------------
\* chrono: calendar arithmetic
\* ------------------------------------------------------------------------

IsLeap(y) == (y % 4 = 0) /\ ((y % 100 # 0) \/ (y % 400 = 0))

DaysInMonth(y, m) ==
    IF m = 2 THEN (IF IsLeap(y) THEN 29 ELSE 28)
    ELSE IF m \in {4, 6, 9, 11} THEN 30 ELSE 31

\* NaiveDate::from_ymd_opt(y, m, d).is_some(); chrono holds the years
\* -262143 .. 262142.
ValidDate(dt) ==
    /\ dt.y >= -262143 /\ dt.y <= 262142
    /\ dt.m >= 1 /\ dt.m <= 12
    /\ dt.d >= 1 /\ dt.d <= DaysInMonth(dt.y, dt.m)

\* A time of day chrono can hold (no leap second).
ValidTime(dt) ==
    /\ dt.h >= 0 /\ dt.h <= 23
    /\ dt.mi >= 0 /\ dt.mi <= 59
    /\ dt.sec >= 0 /\ dt.sec <= 59
    /\ dt.ns >= 0 /\ dt.ns <= 999999999

\* date.signed_duration_since(1970-01-01).num_days()
DaysFromCivil(y, m, d) ==
    LET yy  == IF m <= 2 THEN y - 1 ELSE y
        era == yy \div 400
        yoe == yy - era * 400
        mp  == IF m > 2 THEN m - 3 ELSE m + 9
        doy == (153 * mp + 2) \div 5 + d - 1
        doe == yoe * 365 + yoe \div 4 - yoe \div 100 + doy
    IN  era * 146097 + doe - 719468

\* 1970-01-01 + Duration::days(z), as year, month, day.
CivilFromDays(z) ==
    LET zz  == z + 719468
        era == zz \div 146097
        doe == zz - era * 146097
        yoe == (doe - doe \div 1460 + doe \div 36524 - doe \div 146096) \div 365
        doy == doe - (365 * yoe + yoe \div 4 - yoe \div 100)
        mp  == (5 * doy + 2) \div 153
        d   == doy - (153 * mp + 2) \div 5 + 1
        m   == IF mp < 10 THEN mp + 3 ELSE mp - 9
        y   == yoe + era * 400 + (IF m <= 2 THEN 1 ELSE 0)
    IN  DateOf(y, m, d)

\* The i64 range as nanosecond triples:
\*   i64::MAX =  9223372036854775807 = 106751 d + 85636 s + 854775807 ns
\*   i64::MIN = -9223372036854775808 = -106752 d + 763 s + 145224192 ns
I64_MAX == Nanos(106751, 85636, 854775807)

I64_MIN == Nanos(-106752, 763, 145224192)

\* a <= b on nanosecond triples.
NanosLeq(a, b) ==
    \/ a.days < b.days
    \/ a.days = b.days /\ a.secs < b.secs
    \/ a.days = b.days /\ a.secs = b.secs /\ a.ns <= b.ns

FitsI64(t) == NanosLeq(I64_MIN, t) /\ NanosLeq(t, I64_MAX)

\* The nanoseconds since the epoch of a date and time, unbounded.
NanosOf(dt) ==
    Nanos(DaysFromCivil(dt.y, dt.m, dt.d), dt.h * 3600 + dt.mi * 60 + dt.sec, dt.ns)

\* DateTime::timestamp_nanos_opt(): None when the count overflows an i64.
timestamp_nanos_opt(dt) ==
    LET checked(nanos) == IF FitsI64(nanos) THEN [some |-> TRUE, v |-> nanos]
                          ELSE [some |-> FALSE, v |-> ZeroTS]
    IN  Let1(NanosOf(dt), checked)

\* DateTime::from_timestamp_nanos(nanos), as date and time of day (UTC).
from_timestamp_nanos(t) ==
    LET c == CivilFromDays(t.days)
    IN  DateTimeOf(c.y, c.m, c.d, t.secs \div 3600, (t.secs % 3600) \div 60,
                   t.secs % 60, t.ns)

\* ------------------------------------------------------------------------
\* Record types
\* ------------------------------------------------------------------------

\* One field of a record type T: its name, the type of its payload, whether
\* it is wrapped in Option, and the name of the newtype struct around the
\* payload ("" when there is none).
Field(name, ty, opt, wrap) == [name |-> name, ty |-> ty, opt |-> opt, wrap |-> wrap]

\* struct TestRecord { name: String, age: i32, score: f64, active: bool }
TestRecord ==
    << Field("name", "String", FALSE, ""), Field("age", "i32", FALSE, ""),
       Field("score", "f64", FALSE, ""), Field("active", "bool", FALSE, "") >>

\* struct OptionalRecord { id: i64, name: Option<String>, score: Option<f64>,
\*                         active: Option<bool>, count: Option<i32> }
OptionalRecord ==
    << Field("id", "i64", FALSE, ""), Field("name", "String", TRUE, ""),
       Field("score", "f64", TRUE, ""), Field("active", "bool", TRUE, ""),
       Field("count", "i32", TRUE, "") >>

\* struct UserId(i64);
\* struct CustomWrapper { user_id: UserId, calc_min_date: i32, created_date: NaiveDate }
CustomWrapper ==
    << Field("user_id", "i64", FALSE, "UserId"),
       Field("calc_min_date", "i32", FALSE, ""),
       Field("created_date", "NaiveDate", FALSE, "") >>

\* struct MixedTemporalRecord { id: i64, name: String, birth_date: NaiveDate,
\*     last_login: NaiveDateTime, created_at: DateTime<Utc>, score: f64, active: bool }
MixedTemporalRecord ==
    << Field("id", "i64", FALSE, ""), Field("name", "String", FALSE, ""),
       Field("birth_date", "NaiveDate", FALSE, ""),
       Field("last_login", "NaiveDateTime", FALSE, ""),
       Field("created_at", "DateTimeUtc", FALSE, ""),
       Field("score", "f64", FALSE, ""), Field("active", "bool", FALSE, "") >>

\* struct OptionalChronoRecord { id: i64, name: String, birth_date: Option<NaiveDate>,
\*     last_login: Option<NaiveDateTime>, deleted_at: Option<DateTime<Utc>> }
OptionalChronoRecord ==
    << Field("id", "i64", FALSE, ""), Field("name", "String", FALSE, ""),
       Field("birth_date", "NaiveDate", TRUE, ""),
       Field("last_login", "NaiveDateTime", TRUE, ""),
       Field("deleted_at", "DateTimeUtc", TRUE, "") >>

\* struct DateWrapper(NaiveDate);
\* struct DirectDateRecord { id: i32, birth_date: DateWrapper, name: String }
\* DateWrapper is a single-value wrapper that carries its declared name: it
\* is written as the newtype struct "DateWrapper" around its date.
DirectDateRecord ==
    << Field("id", "i32", FALSE, ""),
       Field("birth_date", "NaiveDate", FALSE, "DateWrapper"),
       Field("name", "String", FALSE, "") >>

\* struct UserId(i64);  struct Email(String);
\* struct NewtypeRecord { user_id: UserId, email: Email, score: f64 }
NewtypeRecord ==
    << Field("user_id", "i64", FALSE, "UserId"),
       Field("email", "String", FALSE, "Email"),
       Field("score", "f64", FALSE, "") >>

\* struct OptionalWrapperRecord { id: i64, user_id: Option<UserId> }
\* A wrapper under an Option: None is written with serialize_none, Some(x)
\* with serialize_some, which visits the wrapper.
OptionalWrapperRecord ==
    << Field("id", "i64", FALSE, ""), Field("user_id", "i64", TRUE, "UserId") >>

RecordTypes ==
    { TestRecord, OptionalRecord, CustomWrapper, MixedTemporalRecord,
      OptionalChronoRecord, DirectDateRecord, NewtypeRecord, OptionalWrapperRecord }

\* struct NestedRecord { id: i64, metadata: MetadataRecord, scores: Vec<f64>,
\*                       tags: Vec<String> }
NestedRecord ==
    << Field("id", "i64", FALSE, ""), Field("metadata", "MetadataRecord", FALSE, ""),
       Field("scores", "Vec<f64>", FALSE, ""), Field("tags", "Vec<String>", FALSE, "") >>

\* struct Audit { created: NaiveDate }
\* struct AuditedRecord { id: i64, created: String, audit: Audit }
\* A record whose field is itself a struct with a chrono field.
AuditedRecord ==
    << Field("id", "i64", FALSE, ""), Field("created", "String", FALSE, ""),
       Field("audit", "Audit", FALSE, "") >>

\* struct TeamRecord { id: i64, members: Vec<UserId> }
\* A record whose field is a sequence of single-value wrappers.
TeamRecord ==
    << Field("id", "i64", FALSE, ""), Field("members", "Vec<UserId>", FALSE, "") >>

\* The record types whose fields hold structs and sequences.
CompoundRecordTypes == { NestedRecord, AuditedRecord, TeamRecord }

\* The fields of the struct a field's type names, <<>> when it names none.
\* struct MetadataRecord { created_by: String, version: i32, is_active: bool }
StructFields(ty) ==
    CASE ty = "MetadataRecord" ->
            << Field("created_by", "String", FALSE, ""), Field("version", "i32", FALSE, ""),
               Field("is_active", "bool", FALSE, "") >>
      [] ty = "Audit" -> << Field("created", "NaiveDate", FALSE, "") >>
      [] OTHER -> << >>

IsStruct(ty) == StructFields(ty) # << >>

IsSeq(ty) == ty \in { "Vec<f64>", "Vec<String>", "Vec<UserId>" }

\* The element of a Vec, as a field without a name.
ElementField(ty) ==
    CASE ty = "Vec<f64>"    -> Field("", "f64", FALSE, "")
      [] ty = "Vec<String>" -> Field("", "String", FALSE, "")
      [] ty = "Vec<UserId>" -> Field("", "i64", FALSE, "UserId")

\* The longest Vec a field holds.
MaxElems == 2

\* The values a field f of the caller's records of type t takes in the model.
\* Text includes a string that reads as a date, integers a number that reads
\* as one, floats a NaN; dates lie on both sides of the epoch; date-times
\* include a fraction before the epoch and instants outside the i64
\* nanosecond range (1677-09-21 .. 2262-04-11); a DateTime<Utc> of the year
\* 10000 is written by serde with a signed five digit year.
RECURSIVE RecordsUpTo(_, _)
RECURSIVE PayloadValues(_, _)
PayloadValues(t, f) ==
    CASE IsStruct(f.ty) -> RecordsUpTo(StructFields(f.ty), Len(StructFields(f.ty)))
      [] IsSeq(f.ty) ->
            UNION { [1 .. n -> PayloadValues(t, ElementField(f.ty))] : n \in 0 .. MaxElems }
      [] f.ty = "String" ->
            IF t = TestRecord THEN { StrV("Alice"), TextV(FmtDate, DateOf(2024, 1, 1)) }
                              ELSE { StrV("Alice") }
      [] f.ty = "i32" -> IF f.name = "calc_min_date" THEN { IntV(20240101) }
                         ELSE { IntV(25) }
      [] f.ty = "i64" -> IF t = NewtypeRecord THEN { IntV(1001), IntV(1002) }
                         ELSE { IntV(1) }
      [] f.ty = "f64" -> IF t = TestRecord THEN { FloatV("85.5"), FloatV("NaN") }
                         ELSE { FloatV("85.5") }
      [] f.ty = "bool" -> IF t = TestRecord THEN { BoolV(TRUE), BoolV(FALSE) }
                          ELSE { BoolV(TRUE) }
      [] f.ty = "NaiveDate" ->
            IF f.opt THEN { ChronoV(DateOf(1990, 5, 15)) }
            ELSE { ChronoV(DateOf(1990, 5, 15)), ChronoV(DateOf(1969, 12, 31)) }
      [] f.ty = "NaiveDateTime" ->
            IF f.opt
            THEN { ChronoV(DateTimeOf(2023, 6, 15, 14, 30, 0, 0)),
                   ChronoV(DateTimeOf(2300, 1, 1, 0, 0, 0, 0)) }
            ELSE { ChronoV(DateTimeOf(2023, 6, 15, 14, 30, 0, 0)),
                   ChronoV(DateTimeOf(1969, 12, 31, 23, 59, 59, 500000000)),
                   ChronoV(DateTimeOf(2300, 1, 1, 0, 0, 0, 0)) }
      [] f.ty = "DateTimeUtc" ->
            IF f.opt THEN { ChronoV(DateTimeOf(2023, 6, 15, 14, 30, 0, 0)) }
            ELSE { ChronoV(DateTimeOf(2023, 6, 15, 14, 30, 0, 0)),
                   ChronoV(DateTimeOf(1600, 1, 1, 0, 0, 0, 0)),
                   ChronoV(DateTimeOf(10000, 1, 1, 0, 0, 0, 0)) }

FieldValues(t, f) ==
    IF f.opt THEN PayloadValues(t, f) \cup { NullV } ELSE PayloadValues(t, f)

\* The records of type t: one value per field, in declaration order.  The
\* value of a struct field is the record of its fields, the value of a Vec
\* the sequence of its elements.
RecordsUpTo(t, k) ==
    IF k = 0 THEN { <<>> }
    ELSE { Append(r, v) : r \in RecordsUpTo(t, k - 1), v \in FieldValues(t, t[k]) }

Records(t) == RecordsUpTo(t, Len(t))

\* Vec<T> of at most MaxRows records.
Vecs(t) == UNION { [1 .. n -> Records(t)] : n \in 0 .. MaxRows }

\* ------------------------------------------------------------------------
\* Results and errors (src/src/error.rs)
\* ------------------------------------------------------------------------

\* A PolarsSerdeError: its variant, the fixed part of its message and the
\* text the message quotes (NullV when it quotes none).
Error(kind, message, arg) == [kind |-> kind, message |-> message, arg |-> arg]

NoError == Error("", "", NullV)

EmptyInput == Error("EmptyInput", "Cannot create DataFrame from empty input", NullV)

ConversionError(message, arg) == Error("ConversionError", message, arg)

Ok(v) == [ok |-> TRUE, val |-> v, err |-> NoError]

Err(e) == [ok |-> FALSE, val |-> <<>>, err |-> e]

\* ------------------------------------------------------------------------
\* Arrow: data types, fields, arrays, record batches
\* ------------------------------------------------------------------------

\* arrow::datatypes::DataType.  unit and tz belong to Timestamp (tz "" is
\* None), value is the value type of a Dictionary.
DataType(id, unit, tz, value) == [id |-> id, unit |-> unit, tz |-> tz, value |-> value]

Primitive(id) == DataType(id, "", "", "")

Utf8 == Primitive("Utf8")

LargeUtf8 == Primitive("LargeUtf8")

Date32 == Primitive("Date32")

Timestamp(unit, tz) == DataType("Timestamp", unit, tz, "")

Dictionary(value) == DataType("Dictionary", "", "", value)

\* arrow::datatypes::Field
ArrowField(name, data_type, nullable) ==
    [name |-> name, data_type |-> data_type, nullable |-> nullable]

\* An array: its own data type and its slots.
Array(data_type, values) == [data_type |-> data_type, values |-> values]

\* RecordBatch::try_new(schema, columns): there is a column, the columns are
\* as many as the fields, of equal length, each of its field's type, and a field that is
\* not nullable has no null slot.
try_new(schema, columns) ==
    IF /\ Len(columns) > 0
       /\ Len(schema) = Len(columns)
       /\ \A i \in 1 .. Len(columns) :
            /\ columns[i].data_type = schema[i].data_type
            /\ Len(columns[i].values) = Len(columns[1].values)
            /\ schema[i].nullable \/ \A r \in 1 .. Len(columns[i].values) :
                                        ~columns[i].values[r].null
    THEN Ok([schema |-> schema, columns |-> columns])
    ELSE Err(ConversionError("Failed to create converted record batch", NullV))

\* batch.num_rows()
num_rows(batch) == IF Len(batch.columns) = 0 THEN 0 ELSE Len(batch.columns[1].values)

\* ------------------------------------------------------------------------
\* TypeDetector (src/src/lib.rs 143-305)
\* ------------------------------------------------------------------------

\* HashMap::insert
Insert(map, key, value) ==
    [k \in DOMAIN map \cup { key } |-> IF k = key THEN value ELSE map[k]]

EmptyMap == [k \in {} |-> ""]

\* TypeDetector::new()
NewTypeDetector == [field_types |-> EmptyMap, current_field |-> ""]

\* std::any::type_name::<T>() of the type a field declares.
PayloadTypeName(f) ==
    CASE f.wrap # ""            -> "crate::" \o f.wrap
      [] f.ty = "NaiveDate"     -> "chrono::naive::date::NaiveDate"
      [] f.ty = "NaiveDateTime" -> "chrono::naive::datetime::NaiveDateTime"
      [] f.ty = "DateTimeUtc"   -> "chrono::datetime::DateTime<chrono::offset::utc::Utc>"
      [] f.ty = "String"        -> "alloc::string::String"
      [] OTHER                  -> f.ty

type_name(f) ==
    IF f.opt THEN "core::option::Option<" \o PayloadTypeName(f) \o ">"
             ELSE PayloadTypeName(f)

\* str::starts_with on the type names above: none of them extends one of
\* the prefixes the detector tests, so a name starts with a prefix exactly
\* when it is that prefix.
starts_with(name, prefix) == name = prefix

\* A serialize_newtype_struct that visits the payload and records nothing.
serialize_newtype_struct_silent(det, name) == det

\* Serializer::serialize_newtype_struct: record the wrapper's name under the
\* field being visited, then visit the payload (a scalar, a string or a
\* chrono value: none of their visits records anything).
serialize_newtype_struct(det, name) ==
    IF det.current_field # ""
    THEN [det EXCEPT !.field_types = Insert(det.field_types, det.current_field, name)]
    ELSE det

\* A visit whose serialize_str records NaiveDate for a text that reads as a
\* date.
serialize_value_from_strings(det, f, v) ==
    IF f.opt /\ v.null THEN det
    ELSE IF f.wrap # "" THEN serialize_newtype_struct(det, f.wrap)
    ELSE IF v.form = FmtDate
         THEN [det EXCEPT !.field_types = Insert(det.field_types, det.current_field,
                                                 "NaiveDate")]
    ELSE det

\* value.serialize(detector) for the value v of field f: None is
\* serialize_none, Some(x) is serialize_some, which visits x; a newtype
\* struct is serialize_newtype_struct; serialize_i32 .. serialize_f64,
\* serialize_bool and serialize_str (a String, and every chrono value, which
\* serde writes with collect_str) record nothing.
RECURSIVE serialize_struct(_, _, _, _)
RECURSIVE serialize_elements(_, _, _, _)
RECURSIVE serialize_value(_, _, _)
serialize_value(det, f, v) ==
    IF f.opt /\ v.null THEN det
    ELSE IF f.wrap # "" THEN serialize_newtype_struct(det, f.wrap)
    ELSE IF IsStruct(f.ty) THEN serialize_struct(det, StructFields(f.ty), v, 1)
    ELSE IF IsSeq(f.ty) THEN serialize_elements(det, ElementField(f.ty), v, 1)
    ELSE det

\* SerializeSeq::serialize_element for each element of a sequence: the
\* element is visited by the same detector, current_field as it stands.
serialize_elements(det, e, v, k) ==
    IF k > Len(v) THEN det
    ELSE serialize_elements(serialize_value(det, e, v[k]), e, v, k + 1)

\* A tag selection that knows the three chrono types but not their Options.
ChronoTag_without_option(name) ==
    IF name = "chrono::naive::date::NaiveDate" THEN "NaiveDate"
    ELSE IF name = "chrono::naive::datetime::NaiveDateTime" THEN "NaiveDateTime"
    ELSE IF starts_with(name, "chrono::datetime::DateTime<chrono::offset::utc::Utc>")
         THEN "DateTimeUtc"
    ELSE ""

\* The tag the type name of a field's declared type selects, "" for none.
ChronoTag(name) ==
    IF name = "chrono::naive::date::NaiveDate" THEN "NaiveDate"
    ELSE IF name = "chrono::naive::datetime::NaiveDateTime" THEN "NaiveDateTime"
    ELSE IF starts_with(name, "chrono::datetime::DateTime<chrono::offset::utc::Utc>")
         THEN "DateTimeUtc"
    ELSE IF starts_with(name, "core::option::Option<chrono::naive::date::NaiveDate>")
         THEN "NaiveDate"
    ELSE IF starts_with(name, "core::option::Option<chrono::naive::datetime::NaiveDateTime>")
         THEN "NaiveDateTime"
    ELSE IF starts_with(name,
              "core::option::Option<chrono::datetime::DateTime<chrono::offset::utc::Utc>>")
         THEN "DateTimeUtc"
    ELSE ""

\* A serialize_field that takes a field for a date when its name ends in
\* "_date".
serialize_field_by_name(det, f, v) ==
    LET d1 == [det EXCEPT !.current_field = f.name]
        d2 == IF f.name \in { "calc_min_date", "created_date", "birth_date" }
              THEN [d1 EXCEPT !.field_types = Insert(d1.field_types, f.name, "NaiveDate")]
              ELSE d1
        d3 == serialize_value(d2, f, v)
    IN  [d3 EXCEPT !.current_field = ""]

\* SerializeStruct::serialize_field(key, value)
serialize_field(det, f, v) ==
    LET d1 == [det EXCEPT !.current_field = f.name]
        d2 == IF ChronoTag(type_name(f)) # ""
              THEN [d1 EXCEPT !.field_types =
                                 Insert(d1.field_types, f.name, ChronoTag(type_name(f)))]
              ELSE d1
        d3 == serialize_value(d2, f, v)
    IN  [d3 EXCEPT !.current_field = ""]

\* value.serialize(&mut detector) of a struct, the sample or the value of
\* one of its fields: serialize_struct hands back the same detector, and
\* the fields are visited in declaration order.
serialize_struct(det, t, sample, k) ==
    IF k > Len(t) THEN det
    ELSE serialize_struct(serialize_field(det, t[k], sample[k]), t, sample, k + 1)

\* detect_chrono_types(sample): the probe of the modelled record types
\* never reports an error.
detect_chrono_types(t, sample) ==
    Ok(serialize_struct(NewTypeDetector, t, sample, 1).field_types)

\* ------------------------------------------------------------------------
\* serde_arrow: schema tracing and the codec
\* ------------------------------------------------------------------------

\* TracingOptions with string_dictionary_encoding(true).
tracing_options_dictionary ==
    [ enums_without_data_as_strings |-> TRUE,
      allow_null_fields             |-> TRUE,
      map_as_struct                 |-> FALSE,
      string_dictionary_encoding    |-> TRUE,
      coerce_numbers                |-> FALSE ]

\* The TracingOptions to_dataframe configures (lib.rs 735-740).
tracing_options ==
    [ enums_without_data_as_strings |-> TRUE,
      allow_null_fields             |-> TRUE,
      map_as_struct                 |-> FALSE,
      string_dictionary_encoding    |-> FALSE,
      coerce_numbers                |-> FALSE ]

\* The Arrow type serde_arrow traces for a payload type.  A chrono type
\* has no Arrow type of its own for the tracer: it is read and written as a
\* string.  Strings are LargeUtf8, or dictionary encoded when the options
\* ask for it.
TracedType(f, options) ==
    CASE f.ty = "i32"  -> Primitive("Int32")
      [] f.ty = "i64"  -> Primitive("Int64")
      [] f.ty = "f64"  -> Primitive("Float64")
      [] f.ty = "bool" -> Primitive("Boolean")
      [] OTHER -> IF options.string_dictionary_encoding THEN Dictionary("LargeUtf8")
                  ELSE LargeUtf8

\* A from_type that yields the fields in the reverse of declaration order.
from_type_reversed(t, options) ==
    Ok([i \in 1 .. Len(t) |->
          ArrowField(t[Len(t) + 1 - i].name, TracedType(t[Len(t) + 1 - i], options),
                     t[Len(t) + 1 - i].opt)])

\* Vec::<FieldRef>::from_type::<T>(options): one field per struct field, in
\* declaration order, nullable when the field is an Option.  It succeeds for
\* every modelled record type.
from_type(t, options) ==
    Ok([i \in 1 .. Len(t) |-> ArrowField(t[i].name, TracedType(t[i], options), t[i].opt)])

\* Vec::<FieldRef>::from_samples(rows, options): the same fields, traced
\* from the values; a field is nullable when a None was seen in it.
from_samples(t, rows, options) ==
    Ok([i \in 1 .. Len(t) |->
          ArrowField(t[i].name, TracedType(t[i], options),
                     \E r \in 1 .. Len(rows) : rows[r][i].null)])

\* An inference that asks the samples first and the type only when they fail.
infer_basic_fields_samples_first(traced, sampled) ==
    IF sampled.ok
    THEN [result |-> sampled, steps |-> << "is_empty", "from_samples" >>]
    ELSE [result |-> traced, steps |-> << "is_empty", "from_samples", "from_type" >>]

\* let basic_fields = match Vec::<FieldRef>::from_type::<T>(options) {
\*     Ok(basic_fields) => basic_fields,
\*     Err(_) => Vec::<FieldRef>::from_samples(rows, options)? };
\* traced is what from_type returns, sampled what from_samples returns when
\* it is called; the steps are those to_dataframe has executed so far.
infer_basic_fields(traced, sampled) ==
    IF traced.ok
    THEN [result |-> traced, steps |-> << "is_empty", "from_type" >>]
    ELSE [result |-> sampled, steps |-> << "is_empty", "from_type", "from_samples" >>]

\* What serde writes for one field value: a chrono value as text in the
\* format of its type, every other value as itself.
SerializeValue(f, v) ==
    IF v.null THEN NullV
    ELSE CASE f.ty = "NaiveDate"     -> TextV(FmtDate, DateOf(v.dt.y, v.dt.m, v.dt.d))
           [] f.ty = "NaiveDateTime" -> TextV(FmtNaive, v.dt)
           [] f.ty = "DateTimeUtc"   -> TextV(FmtRfcZ, v.dt)
           [] OTHER                  -> v

\* serde_arrow::to_record_batch(fields, rows): column i holds field i of
\* every row, in row order.
to_record_batch(t, fields, rows) ==
    IF \E i \in 1 .. Len(fields) : \E r \in 1 .. Len(rows) :
          rows[r][i].null /\ ~fields[i].nullable
    THEN Err(Error("SerdeArrowError", "null in a field that is not nullable", NullV))
    ELSE Ok([ schema  |-> fields,
              columns |-> [i \in 1 .. Len(fields) |->
                             Array(fields[i].data_type,
                                   [r \in 1 .. Len(rows) |->
                                      SerializeValue(t[i], rows[r][i])])] ])

\* ------------------------------------------------------------------------
\* chrono: parsing and formatting
\* ------------------------------------------------------------------------

\* NaiveDate::parse_from_str(text, "%Y-%m-%d"), also NaiveDate::from_str
NaiveDate_parse(text) ==
    IF text.form = FmtDate /\ ValidDate(text.dt)
    THEN [ok |-> TRUE, dt |-> DateOf(text.dt.y, text.dt.m, text.dt.d)]
    ELSE [ok |-> FALSE, dt |-> ZeroDT]

\* NaiveDateTime::parse_from_str(text, "%Y-%m-%dT%H:%M:%S%.f"), also
\* NaiveDateTime::from_str
NaiveDateTime_parse(text) ==
    IF text.form = FmtNaive /\ ValidDate(text.dt) /\ ValidTime(text.dt)
    THEN [ok |-> TRUE, dt |-> text.dt]
    ELSE [ok |-> FALSE, dt |-> ZeroDT]

\* DateTime::parse_from_rfc3339(text): a four digit year and a zone, here
\* Z or +00:00.  DateTime::<FixedOffset>::from_str accepts these texts too.
parse_from_rfc3339(text) ==
    IF /\ text.form \in { FmtRfcZ, FmtRfcOffset }
       /\ text.dt.y >= 0 /\ text.dt.y <= 9999
       /\ ValidDate(text.dt) /\ ValidTime(text.dt)
    THEN [ok |-> TRUE, dt |-> text.dt]
    ELSE [ok |-> FALSE, dt |-> ZeroDT]

\* The first index of a sequence of results that is an error, 0 for none.
FirstErr(rs) ==
    IF \A i \in 1 .. Len(rs) : rs[i].ok THEN 0
    ELSE CHOOSE i \in 1 .. Len(rs) : ~rs[i].ok /\ \A j \in 1 .. i - 1 : rs[j].ok

\* A loop that converts slot after slot and returns at the first error.
Collect(rs) ==
    LET collect(x) == IF FirstErr(x) = 0 THEN Ok([i \in 1 .. Len(x) |-> x[i].val])
                      ELSE Err(x[FirstErr(x)].err)
    IN  Let1(rs, collect)

\* ------------------------------------------------------------------------
\* Forward transforms (src/src/lib.rs 308-485)
\* ------------------------------------------------------------------------

\* A slot conversion that stores a null for a text that is no date.
DateSlot_null_on_error(v) ==
    LET slot(date_str, date) ==
            IF date.ok THEN Ok(Date32V(DaysFromCivil(date.dt.y, date.dt.m, date.dt.d)))
            ELSE Ok(NullV)
    IN  IF v.null THEN Ok(NullV) ELSE Let2(v, NaiveDate_parse(v), slot)

\* One slot of convert_string_dates_to_date32.
DateSlot(v) ==
    LET slot(date_str, date) ==
            IF date.ok THEN Ok(Date32V(DaysFromCivil(date.dt.y, date.dt.m, date.dt.d)))
            ELSE Err(ConversionError("Failed to parse date string", date_str))
    IN  IF v.null THEN Ok(NullV) ELSE Let2(v, NaiveDate_parse(v), slot)

\* convert_string_dates_to_date32(column)
convert_string_dates_to_date32(column) ==
    IF column.data_type.id \in { "Utf8", "LargeUtf8" }
    THEN LET finish(r) == IF r.ok THEN Ok(Array(Date32, r.val)) ELSE r
         IN  Let1(Collect([i \in 1 .. Len(column.values) |-> DateSlot(column.values[i])]),
                  finish)
    ELSE Err(ConversionError(
               "Expected string array (Utf8 or LargeUtf8) for date conversion", NullV))

\* Option::unwrap_or
unwrap_or(opt, default) == IF opt.some THEN opt.v ELSE default

\* parse_datetime_string(datetime_str, is_utc)
parse_datetime_string(datetime_str, is_utc) ==
    LET utc(dt) ==
            IF dt.ok THEN Ok(unwrap_or(timestamp_nanos_opt(dt.dt), ZeroTS))
            ELSE Err(ConversionError("Failed to parse UTC datetime string", datetime_str))
        naive(dt) ==
            IF dt.ok THEN Ok(unwrap_or(timestamp_nanos_opt(dt.dt), ZeroTS))
            ELSE Err(ConversionError("Failed to parse datetime string", datetime_str))
    IN  IF is_utc THEN Let1(parse_from_rfc3339(datetime_str), utc)
        ELSE Let1(NaiveDateTime_parse(datetime_str), naive)

\* One slot of convert_string_datetimes_to_timestamp.
TimestampSlot(v, timezone) ==
    LET append(nanos) == IF nanos.ok THEN Ok(TimestampV(nanos.val)) ELSE nanos
    IN  IF v.null THEN Ok(NullV)
        ELSE Let1(parse_datetime_string(v, timezone # ""), append)

\* convert_string_datetimes_to_timestamp(column, timezone); timezone "" is None.
convert_string_datetimes_to_timestamp(column, timezone) ==
    IF column.data_type.id \in { "Utf8", "LargeUtf8" }
    THEN LET finish(r) == IF r.ok THEN Ok(Array(Timestamp("ns", timezone), r.val)) ELSE r
         IN  Let1(Collect([i \in 1 .. Len(column.values) |->
                             TimestampSlot(column.values[i], timezone)]), finish)
    ELSE Err(ConversionError(
               "Expected string array (Utf8 or LargeUtf8) for datetime conversion", NullV))

\* The end of the three column loops: the batch of the new fields and the
\* new columns, or the error the loop returned.
NewBatch(r) ==
    IF r.ok
    THEN Let2([i \in 1 .. Len(r.val) |-> r.val[i].field],
              [i \in 1 .. Len(r.val) |-> r.val[i].column], try_new)
    ELSE r

\* A loop body that declares every converted column nullable.
ChronoColumn_always_nullable(batch, chrono_types, i) ==
    LET field  == batch.schema[i]
        column == batch.columns[i]
        keep   == Ok([column |-> column, field |-> field])
        push(r, data_type) ==
            IF r.ok THEN Ok([column |-> r.val,
                             field  |-> ArrowField(field.name, data_type, TRUE)])
            ELSE r
    IN  IF field.name \in DOMAIN chrono_types
        THEN CASE chrono_types[field.name] = "NaiveDate" ->
                    Let2(convert_string_dates_to_date32(column), Date32, push)
               [] chrono_types[field.name] = "NaiveDateTime" ->
                    Let2(convert_string_datetimes_to_timestamp(column, ""),
                         Timestamp("ns", ""), push)
               [] chrono_types[field.name] = "DateTimeUtc" ->
                    Let2(convert_string_datetimes_to_timestamp(column, "UTC"),
                         Timestamp("ns", "UTC"), push)
               [] OTHER -> keep
        ELSE keep

\* The body of the loop of convert_chrono_columns for column i: the new
\* column and the new field.
ChronoColumn(batch, chrono_types, i) ==
    LET field  == batch.schema[i]
        column == batch.columns[i]
        keep   == Ok([column |-> column, field |-> field])
        push(r, data_type) ==
            IF r.ok THEN Ok([column |-> r.val,
                             field  |-> ArrowField(field.name, data_type, field.nullable)])
            ELSE r
    IN  IF field.name \in DOMAIN chrono_types
        THEN CASE chrono_types[field.name] = "NaiveDate" ->
                    Let2(convert_string_dates_to_date32(column), Date32, push)
               [] chrono_types[field.name] = "NaiveDateTime" ->
                    Let2(convert_string_datetimes_to_timestamp(column, ""),
                         Timestamp("ns", ""), push)
               [] chrono_types[field.name] = "DateTimeUtc" ->
                    Let2(convert_string_datetimes_to_timestamp(column, "UTC"),
                         Timestamp("ns", "UTC"), push)
               [] OTHER -> keep
        ELSE keep

\* convert_chrono_columns(batch, chrono_types)
convert_chrono_columns(batch, chrono_types) ==
    LET loop(b, types) ==
            Collect([i \in 1 .. Len(b.columns) |-> ChronoColumn(b, types, i)])
    IN  Let1(Let2(batch, chrono_types, loop), NewBatch)

\* compute::cast(column, &DataType::Utf8) of a dictionary of strings: the
\* string of every slot.
cast_to_utf8(column) == Ok(Array(Utf8, column.values))

\* The body of the loop of convert_dictionary_to_strings for column i.
DictionaryColumn(batch, i) ==
    LET field  == batch.schema[i]
        column == batch.columns[i]
    IN  IF field.data_type.id = "Dictionary" /\ field.data_type.value = "Utf8"
        THEN Ok([column |-> cast_to_utf8(column).val,
                 field  |-> ArrowField(field.name, Utf8, field.nullable)])
        ELSE Ok([column |-> column, field |-> field])

\* convert_dictionary_to_strings(batch)
convert_dictionary_to_strings(batch) ==
    LET loop(b) == Collect([i \in 1 .. Len(b.columns) |-> DictionaryColumn(b, i)])
    IN  Let1(Let1(batch, loop), NewBatch)

\* ------------------------------------------------------------------------
\* Engine bridge (src/src/version_compat.rs)
\* ------------------------------------------------------------------------

\* The Polars dtype of an Arrow type: strings of either width are String, a
\* dictionary of strings is Categorical, Date32 is Date, a Timestamp is the
\* Datetime of the same unit and zone.
PolarsType(data_type) ==
    CASE data_type.id \in { "Utf8", "LargeUtf8" } -> Primitive("String")
      [] data_type.id = "Dictionary" -> Primitive("Categorical")
      [] data_type.id = "Date32"     -> Primitive("Date")
      [] data_type.id = "Timestamp"  -> DataType("Datetime", data_type.unit, data_type.tz, "")
      [] OTHER                       -> data_type

\* The Arrow type a Polars column is exported as.
ArrowType(dtype) ==
    CASE dtype.id = "String"      -> LargeUtf8
      [] dtype.id = "Categorical" -> Dictionary("LargeUtf8")
      [] dtype.id = "Date"        -> Date32
      [] dtype.id = "Datetime"    -> Timestamp(dtype.unit, dtype.tz)
      [] OTHER                    -> dtype

\* A DataFrame: the name and dtype of every column, and the chunks; a chunk
\* holds, per column, the slots of its rows.
DataFrame(schema, chunks) == [schema |-> schema, chunks |-> chunks]

\* arrow_to_dataframe(batches): the columns of the first batch's schema,
\* one chunk per batch.
arrow_to_dataframe(batches) ==
    Ok(DataFrame(
         [i \in 1 .. Len(batches[1].schema) |->
            [name  |-> batches[1].schema[i].name,
             dtype |-> PolarsType(batches[1].schema[i].data_type)]],
         [b \in 1 .. Len(batches) |->
            [i \in 1 .. Len(batches[b].columns) |-> batches[b].columns[i].values]]))

RECURSIVE ConcatChunks(_, _, _)
\* Column i of chunks 1 .. k, one after the other.
ConcatChunks(chunks, i, k) ==
    IF k = 0 THEN <<>> ELSE ConcatChunks(chunks, i, k - 1) \o chunks[k][i]

\* An as_single_chunk that keeps the first chunk of every column and drops
\* the others.
as_single_chunk_first(df) == DataFrame(df.schema, << df.chunks[1] >>)

\* df.as_single_chunk(): every column rechunked into one chunk, rows in order.
as_single_chunk(df) ==
    DataFrame(df.schema,
              << [i \in 1 .. Len(df.schema) |-> ConcatChunks(df.chunks, i, Len(df.chunks))] >>)

\* df.height()
height(df) ==
    IF Len(df.schema) = 0 THEN 0 ELSE Len(ConcatChunks(df.chunks, 1, Len(df.chunks)))

\* dataframe_to_arrow(df): the frame as a single chunk, then one record
\* batch per chunk; Polars exports every field as nullable.
dataframe_to_arrow(df) ==
    LET export(one) ==
            Ok([b \in 1 .. Len(one.chunks) |->
                  [ schema  |-> [i \in 1 .. Len(one.schema) |->
                                   ArrowField(one.schema[i].name,
                                              ArrowType(one.schema[i].dtype), TRUE)],
                    columns |-> [i \in 1 .. Len(one.schema) |->
                                   Array(ArrowType(one.schema[i].dtype),
                                         one.chunks[b][i])] ]])
    IN  Let1(as_single_chunk(df), export)

\* ------------------------------------------------------------------------
\* to_dataframe (src/src/lib.rs 726-776)
\* ------------------------------------------------------------------------

\* to_dataframe(rows) after its emptiness check, for rows: Vec<T> with
\* T = t: its result and the steps the call executed, in order.
to_dataframe_pipeline(t, rows) ==
    LET run(result, steps) == [result |-> result, steps |-> steps]
        bridge(final_rb, s) ==
            IF ~final_rb.ok THEN run(final_rb, s)
            ELSE run(arrow_to_dataframe(<< final_rb.val >>), Append(s, "arrow_to_dataframe"))
        dictionary(converted_rb, s) ==
            IF ~converted_rb.ok THEN run(converted_rb, s)
            ELSE Let2(convert_dictionary_to_strings(converted_rb.val),
                      Append(s, "convert_dictionary_to_strings"), bridge)
        chrono(rb, chrono_types, s) ==
            IF ~rb.ok THEN run(rb, s)
            ELSE Let2(convert_chrono_columns(rb.val, chrono_types.val),
                      Append(s, "convert_chrono_columns"), dictionary)
        batch(basic_fields, chrono_types, s) ==
            IF ~chrono_types.ok
            THEN run(Err(ConversionError("Failed to detect chrono types", NullV)), s)
            ELSE Let3(to_record_batch(t, basic_fields.val, rows), chrono_types,
                      Append(s, "to_record_batch"), chrono)
        detect(basic_fields, s) ==
            IF ~basic_fields.ok THEN run(basic_fields, s)
            ELSE Let3(basic_fields, detect_chrono_types(t, rows[1]),
                      Append(s, "detect_chrono_types"), batch)
        fields(inferred) == detect(inferred.result, inferred.steps)
    IN  Let1(infer_basic_fields(from_type(t, tracing_options),
                                from_samples(t, rows, tracing_options)), fields)

\* A to_dataframe that infers the schema before it looks at the length of
\* its input.
to_dataframe_run_infer_first(t, rows) ==
    IF Len(rows) = 0
    THEN [result |-> IF from_type(t, tracing_options).ok THEN Err(EmptyInput)
                     ELSE from_type(t, tracing_options),
          steps  |-> << "from_type", "is_empty" >>]
    ELSE to_dataframe_pipeline(t, rows)

\* A to_dataframe that goes on with the batch of the codec when forward
\* reconciliation fails.
to_dataframe_run_keep_going(t, rows) ==
    LET swallow(p) ==
            IF p.result.ok \/ p.steps[Len(p.steps)] # "convert_chrono_columns" THEN p
            ELSE [result |-> arrow_to_dataframe(
                               << to_record_batch(t, from_type(t, tracing_options).val,
                                                  rows).val >>),
                  steps  |-> p.steps \o << "convert_dictionary_to_strings",
                                           "arrow_to_dataframe" >>]
    IN  IF Len(rows) = 0 THEN [result |-> Err(EmptyInput), steps |-> << "is_empty" >>]
        ELSE Let1(to_dataframe_pipeline(t, rows), swallow)

\* One run of to_dataframe(rows): records.is_empty() is tested first and
\* ends the call with EmptyInput.
to_dataframe_run(t, rows) ==
    IF Len(rows) = 0 THEN [result |-> Err(EmptyInput), steps |-> << "is_empty" >>]
    ELSE to_dataframe_pipeline(t, rows)

to_dataframe(t, rows) == to_dataframe_run(t, rows).result

\* ------------------------------------------------------------------------
\* Reverse transforms (src/src/lib.rs 487-610)
\* ------------------------------------------------------------------------

\* 1970-01-01 + Duration::days(days) stays inside chrono's calendar.
InCalendar(days) == days >= DaysFromCivil(-262143, 1, 1) /\ days <= DaysFromCivil(262142, 12, 31)

\* A slot conversion that formats a null slot as the day 0.
Date32Slot_null_as_epoch(v) ==
    IF v.null THEN Ok(TextV(FmtDate, CivilFromDays(0)))
    ELSE IF InCalendar(v.n) THEN Ok(TextV(FmtDate, CivilFromDays(v.n)))
    ELSE Err(Error("panic", "NaiveDate + TimeDelta overflowed", NullV))

\* One slot of convert_date32_to_string.  The sum panics outside chrono's
\* calendar; the panic is carried as an error of kind "panic".
Date32Slot(v) ==
    IF v.null THEN Ok(NullV)
    ELSE IF InCalendar(v.n) THEN Ok(TextV(FmtDate, CivilFromDays(v.n)))
    ELSE Err(Error("panic", "NaiveDate + TimeDelta overflowed", NullV))

\* convert_date32_to_string(column)
convert_date32_to_string(column) ==
    IF column.data_type.id = "Date32"
    THEN LET finish(r) == IF r.ok THEN Ok(Array(Utf8, r.val)) ELSE r
         IN  Let1(Collect([i \in 1 .. Len(column.values) |-> Date32Slot(column.values[i])]),
                  finish)
    ELSE Err(ConversionError("Expected Date32 array for string conversion", NullV))

\* A slot formatted to whole seconds ("%Y-%m-%dT%H:%M:%S"): the fraction is
\* dropped.
TimestampToStringSlot_seconds(v, timezone) ==
    IF v.null THEN NullV
    ELSE LET dt == from_timestamp_nanos(v.ts)
             whole == [dt EXCEPT !.ns = 0]
         IN  IF timezone # "" THEN TextV(FmtRfcOffset, whole) ELSE TextV(FmtNaive, whole)

\* One slot of convert_timestamp_to_string.
TimestampToStringSlot(v, timezone) ==
    IF v.null THEN NullV
    ELSE IF timezone # "" THEN TextV(FmtRfcOffset, from_timestamp_nanos(v.ts))
    ELSE TextV(FmtNaive, from_timestamp_nanos(v.ts))

\* convert_timestamp_to_string(column, timezone)
convert_timestamp_to_string(column, timezone) ==
    IF column.data_type.id = "Timestamp" /\ column.data_type.unit = "ns"
    THEN Ok(Array(Utf8, [i \in 1 .. Len(column.values) |->
                           TimestampToStringSlot(column.values[i], timezone)]))
    ELSE Err(ConversionError("Expected Timestamp array for string conversion", NullV))

\* compute::cast(column, &DataType::Utf8) of a Date64 column: the date and
\* time of every slot as text.
cast_date64_to_utf8(column) ==
    Ok(Array(Utf8, [i \in 1 .. Len(column.values) |->
                      IF column.values[i].null THEN NullV
                      ELSE TextV(FmtNaive, from_timestamp_nanos(column.values[i].ts))]))

\* A loop body that rewrites the timestamp columns and keeps a Date32 column
\* as it is.
FromChronoColumn_timestamps_only(batch, i) ==
    LET field  == batch.schema[i]
        column == batch.columns[i]
        push(r) == IF r.ok THEN Ok([column |-> r.val,
                                    field  |-> ArrowField(field.name, Utf8, field.nullable)])
                   ELSE r
    IN  CASE field.data_type.id = "Timestamp" ->
                Let1(convert_timestamp_to_string(column, field.data_type.tz), push)
          [] OTHER -> Ok([column |-> column, field |-> field])

\* A loop body that declares every rewritten column as not nullable.
FromChronoColumn_not_nullable(batch, i) ==
    LET field  == batch.schema[i]
        column == batch.columns[i]
        push(r) == IF r.ok THEN Ok([column |-> r.val,
                                    field  |-> ArrowField(field.name, Utf8, FALSE)])
                   ELSE r
    IN  CASE field.data_type.id = "Date32"    -> Let1(convert_date32_to_string(column), push)
          [] field.data_type.id = "Timestamp" ->
                Let1(convert_timestamp_to_string(column, field.data_type.tz), push)
          [] field.data_type.id = "Date64"    -> Let1(cast_date64_to_utf8(column), push)
          [] OTHER -> Ok([column |-> column, field |-> field])

\* The body of the loop of convert_from_chrono_columns for column i.
FromChronoColumn(batch, i) ==
    LET field  == batch.schema[i]
        column == batch.columns[i]
        push(r) == IF r.ok THEN Ok([column |-> r.val,
                                    field  |-> ArrowField(field.name, Utf8, field.nullable)])
                   ELSE r
    IN  CASE field.data_type.id = "Date32"    -> Let1(convert_date32_to_string(column), push)
          [] field.data_type.id = "Timestamp" ->
                Let1(convert_timestamp_to_string(column, field.data_type.tz), push)
          [] field.data_type.id = "Date64"    -> Let1(cast_date64_to_utf8(column), push)
          [] OTHER -> Ok([column |-> column, field |-> field])

\* convert_from_chrono_columns(batch)
convert_from_chrono_columns(batch) ==
    LET loop(b) == Collect([i \in 1 .. Len(b.columns) |-> FromChronoColumn(b, i)])
    IN  Let1(Let1(batch, loop), NewBatch)

\* ------------------------------------------------------------------------
\* from_dataframe (src/src/lib.rs 653-702)
\* ------------------------------------------------------------------------

\* The index of the column named name, 0 when the batch has none.
ColumnIndex(batch, name) ==
    IF \E i \in 1 .. Len(batch.schema) : batch.schema[i].name = name
    THEN CHOOSE i \in 1 .. Len(batch.schema) : batch.schema[i].name = name
    ELSE 0

IsStringType(data_type) == data_type.id \in { "Utf8", "LargeUtf8", "Dictionary" }

IsIntType(data_type) ==
    data_type.id \in { "Int8", "Int16", "Int32", "Int64", "UInt8", "UInt16", "UInt32", "UInt64" }

DeserializeError(v) == Err(Error("SerdeArrowError", "invalid type or value", v))

\* A read that rejects every null slot, also for an Option.
DeserializeValue_null_is_error(f, data_type, v) ==
    IF v.null THEN DeserializeError(v)
    ELSE CASE f.ty \in { "i32", "i64" } -> Ok(IntV(v.n))
           [] f.ty = "f64"  -> Ok(FloatV(v.s))
           [] f.ty = "bool" -> Ok(BoolV(v.n = 1))
           [] f.ty = "String" -> Ok(v)
           [] f.ty = "NaiveDate" -> Ok(ChronoV(NaiveDate_parse(v).dt))
           [] f.ty = "NaiveDateTime" -> Ok(ChronoV(NaiveDateTime_parse(v).dt))
           [] f.ty = "DateTimeUtc" -> Ok(ChronoV(parse_from_rfc3339(v).dt))

\* What serde reads for a field of type f from a slot v of a column of type
\* data_type: a null is None for an Option and an error otherwise; a number
\* or a boolean is read from a column of its kind; a String is the text of
\* a string column; a chrono value is parsed from the text with the
\* FromStr of its type.
DeserializeValue(f, data_type, v) ==
    IF v.null THEN (IF f.opt THEN Ok(NullV) ELSE DeserializeError(v))
    ELSE CASE f.ty \in { "i32", "i64" } ->
                IF IsIntType(data_type) THEN Ok(IntV(v.n)) ELSE DeserializeError(v)
           [] f.ty = "f64" ->
                IF data_type.id \in { "Float32", "Float64" } THEN Ok(FloatV(v.s))
                ELSE DeserializeError(v)
           [] f.ty = "bool" ->
                IF data_type.id = "Boolean" THEN Ok(BoolV(v.n = 1)) ELSE DeserializeError(v)
           [] f.ty = "String" ->
                IF IsStringType(data_type) THEN Ok(v) ELSE DeserializeError(v)
           [] f.ty = "NaiveDate" ->
                IF IsStringType(data_type) /\ NaiveDate_parse(v).ok
                THEN Ok(ChronoV(NaiveDate_parse(v).dt)) ELSE DeserializeError(v)
           [] f.ty = "NaiveDateTime" ->
                IF IsStringType(data_type) /\ NaiveDateTime_parse(v).ok
                THEN Ok(ChronoV(NaiveDateTime_parse(v).dt)) ELSE DeserializeError(v)
           [] f.ty = "DateTimeUtc" ->
                IF IsStringType(data_type) /\ parse_from_rfc3339(v).ok
                THEN Ok(ChronoV(parse_from_rfc3339(v).dt)) ELSE DeserializeError(v)

\* Field f of row r of the batch: the column is found by the field's name;
\* a field without a column is None for an Option and an error otherwise.
DeserializeField(f, batch, r) ==
    LET c == ColumnIndex(batch, f.name)
    IN  IF c = 0 THEN (IF f.opt THEN Ok(NullV)
                       ELSE Err(Error("SerdeArrowError", "missing field", NullV)))
        ELSE DeserializeValue(f, batch.schema[c].data_type, batch.columns[c].values[r])

\* serde_arrow::from_record_batch(batch): record r is read from row r.
from_record_batch(t, batch) ==
    Collect([r \in 1 .. num_rows(batch) |->
               Collect([i \in 1 .. Len(t) |-> DeserializeField(t[i], batch, r)])])

\* deserialize_with_chrono_detection(batch)
deserialize_with_chrono_detection(t, batch) ==
    LET map_err(r) == IF r.ok THEN r
                      ELSE Err(ConversionError("Failed to deserialize batch", r.err.arg))
    IN  Let1(from_record_batch(t, batch), map_err)

RECURSIVE FromBatches(_, _, _, _)
\* The loop of from_dataframe over batches k .. Len(batches), out holding
\* the records of the batches before k.
FromBatches(t, batches, k, out) ==
    IF k > Len(batches) THEN Ok(out)
    ELSE LET extend(batch_results) ==
                 IF ~batch_results.ok THEN batch_results
                 ELSE FromBatches(t, batches, k + 1, out \o batch_results.val)
             deserialize(converted_batch) ==
                 IF ~converted_batch.ok THEN converted_batch
                 ELSE Let1(deserialize_with_chrono_detection(t, converted_batch.val), extend)
         IN  Let1(convert_from_chrono_columns(batches[k]), deserialize)

\* from_dataframe::<T>(df) with T = t
from_dataframe(t, df) ==
    LET loop(batches) == IF ~batches.ok THEN batches
                         ELSE FromBatches(t, batches.val, 1, <<>>)
    IN  Let1(dataframe_to_arrow(df), loop)

\* ------------------------------------------------------------------------
\* The program: a caller converts its records to a DataFrame, back to
\* records, and to a DataFrame again.
\* ------------------------------------------------------------------------

VARIABLES
    T,          \* the record type of the caller
    records,    \* the caller's Vec<T>
    df,         \* to_dataframe(&records)
    steps,      \* the steps the latest to_dataframe call executed
    back,       \* from_dataframe::<T>(df)
    df_again,   \* to_dataframe(&back)
    pc,         \* the caller's position
    batch,          \* a record batch handed to a reconciliation step
    chrono_types,   \* the signal map handed to forward reconciliation
    out,            \* the result of the reconciliation step
    threads,        \* the spawned threads: what each one owns and where it is
    derivations     \* what the two schema derivations of serde_arrow return

vars == << T, records, df, steps, back, df_again, pc, batch, chrono_types, out, threads,
          derivations >>

\* What the callers of to_dataframe and from_dataframe hold.
callerVars == << T, records, df, steps, back, df_again >>

\* What a reconciliation step is handed and returns.
batchVars == << batch, chrono_types, out >>

\* No record batch.
NoBatch == [schema |-> <<>>, columns |-> <<>>]

\* The result of a call that has not been made.
NotCalled == Err(Error("not called", "", NullV))

\* No schema derivation has been asked for.
NotDerived == [traced |-> NotCalled, sampled |-> NotCalled]

Init ==
    /\ T \in RecordTypes
    /\ records \in Vecs(T)
    /\ df = NotCalled
    /\ steps = <<>>
    /\ back = NotCalled
    /\ df_again = NotCalled
    /\ pc = "start"
    /\ batch = NoBatch
    /\ chrono_types = EmptyMap
    /\ out = NotCalled
    /\ threads = <<>>
    /\ derivations = NotDerived

\* let df = to_dataframe(&records);
ToDataframe ==
    /\ pc = "start"
    /\ \E run \in { to_dataframe_run(T, records) } :
          /\ df' = run.result
          /\ steps' = run.steps
    /\ pc' = "encoded"
    /\ UNCHANGED << T, records, back, df_again, batchVars, threads, derivations >>

\* The frame the caller holds is split by the engine into two chunks, rows
\* 1 .. k and the rest: chunking is internal to a DataFrame and changes
\* neither its schema nor its rows.
Rechunk(k) ==
    /\ pc = "encoded"
    /\ df.ok
    /\ Len(df.val.chunks) = 1
    /\ k >= 1 /\ k < height(df.val)
    /\ df' = Ok(DataFrame(df.val.schema,
                  << [i \in 1 .. Len(df.val.schema) |-> SubSeq(df.val.chunks[1][i], 1, k)],
                     [i \in 1 .. Len(df.val.schema) |->
                        SubSeq(df.val.chunks[1][i], k + 1, height(df.val))] >>))
    /\ UNCHANGED << T, records, steps, back, df_again, pc, batchVars, threads, derivations >>

\* let back: Vec<T> = from_dataframe(df);
FromDataframe ==
    /\ pc = "encoded"
    /\ df.ok
    /\ back' = from_dataframe(T, df.val)
    /\ pc' = "decoded"
    /\ UNCHANGED << T, records, df, steps, df_again, batchVars, threads, derivations >>

\* let df_again = to_dataframe(&back);
ToDataframeAgain ==
    /\ pc = "decoded"
    /\ back.ok
    /\ \E run \in { to_dataframe_run(T, back.val) } :
          /\ df_again' = run.result
          /\ steps' = run.steps
    /\ pc' = "reencoded"
    /\ UNCHANGED << T, records, df, back, batchVars, threads, derivations >>

Next ==
    \/ ToDataframe
    \/ \E k \in 1 .. MaxRows : Rechunk(k)
    \/ FromDataframe
    \/ ToDataframeAgain

Spec == Init /\ [][Next]_vars

\* ------------------------------------------------------------------------
\* The program: a caller builds a DataFrame in the engine (df!) and reads
\* records from it.
\* ------------------------------------------------------------------------

\* struct DateRecord { name: String, birth_date: NaiveDate }
DateRecord ==
    << Field("name", "String", FALSE, ""), Field("birth_date", "NaiveDate", FALSE, "") >>

\* struct ExtraFieldRecord { id: i64 }
ExtraFieldRecord == << Field("id", "i64", FALSE, "") >>

FrameRecordTypes == { DateRecord, ExtraFieldRecord }

\* A column of the engine: its name, its dtype and the values its slots take
\* in the model.  A slot of a Datetime column carries its instant, whatever
\* the unit of the column.
Series(name, dtype, values) == [name |-> name, dtype |-> dtype, values |-> values]

\* The column df! builds for field f of the record type: text for a
\* String, Int64 for an i64, Date for a Vec<NaiveDate>.
FieldSeries(f) ==
    CASE f.ty = "String"    -> Series(f.name, Primitive("String"), { StrV("Alice"), StrV("Bob") })
      [] f.ty = "NaiveDate" ->
            Series(f.name, Primitive("Date"),
                   { Date32V(DaysFromCivil(1990, 5, 15)), Date32V(DaysFromCivil(1985, 12, 3)),
                     Date32V(DaysFromCivil(1969, 12, 31)) })
      [] f.ty = "i64"       -> Series(f.name, Primitive("Int64"), { IntV(1), IntV(2) })

\* The columns a frame carries beside those of the record type: text,
\* floats, booleans, dates, and date-times in the engine's millisecond unit.
ExtraSeries ==
    { Series("extra_field1", Primitive("String"), { StrV("value1") }),
      Series("extra_field2", Primitive("Float64"), { FloatV("10.0") }),
      Series("extra_field3", Primitive("Boolean"), { BoolV(TRUE) }),
      Series("extra_date", Primitive("Date"), { Date32V(DaysFromCivil(2024, 1, 1)) }),
      Series("extra_time", DataType("Datetime", "ms", "", ""),
             { TimestampV(Nanos(DaysFromCivil(2024, 1, 1), 0, 0)) }) }

\* The frames of n rows over a sequence of series: one chunk, every column
\* of n slots.
FramesOf(series, n) ==
    { DataFrame([i \in 1 .. Len(series) |-> [name |-> series[i].name, dtype |-> series[i].dtype]],
                << [i \in 1 .. Len(series) |-> [r \in 1 .. n |-> rows[r][i]]] >>) :
        rows \in [1 .. n -> { row \in [1 .. Len(series) -> UNION { series[i].values : i \in 1 .. Len(series) }] :
                                \A i \in 1 .. Len(series) : row[i] \in series[i].values }] }

\* The frames a caller builds for record type t: the columns of t, alone or
\* with one more column before or after them.
EngineFrames(t) ==
    LET own == [i \in 1 .. Len(t) |-> FieldSeries(t[i])]
    IN  UNION { FramesOf(series, n) :
                  series \in { own } \cup { << e >> \o own : e \in ExtraSeries }
                                      \cup { Append(own, e) : e \in ExtraSeries },
                  n \in 1 .. MaxRows }

InitFrame ==
    /\ T \in FrameRecordTypes
    /\ records = <<>>
    /\ df \in { Ok(frame) : frame \in EngineFrames(T) }
    /\ steps = <<>>
    /\ back = NotCalled
    /\ df_again = NotCalled
    /\ pc = "frame"
    /\ batch = NoBatch
    /\ chrono_types = EmptyMap
    /\ out = NotCalled
    /\ threads = <<>>
    /\ derivations = NotDerived

\* let converted: Vec<T> = from_dataframe(df);
FromEngineFrame ==
    /\ pc = "frame"
    /\ back' = from_dataframe(T, df.val)
    /\ pc' = "read"
    /\ UNCHANGED << T, records, df, steps, df_again, batchVars, threads, derivations >>

NextFrame == FromEngineFrame

FrameSpec == InitFrame /\ [][NextFrame]_vars

\* ------------------------------------------------------------------------
\* The reconciliation steps: convert_chrono_columns and
\* convert_from_chrono_columns applied to a record batch.
\* ------------------------------------------------------------------------

\* arrow::datatypes::TimeUnit
TimeUnits == { "s", "ms", "us", "ns" }

\* The zone of a Timestamp type: None or UTC.
Zones == { "", "UTC" }

\* arrow::datatypes::DataType::Date64
Date64 == Primitive("Date64")

\* i32::MAX
I32_MAX == 2147483647

\* The slots a column of a data type holds in the model, nulls apart.  Dates
\* lie on both sides of the epoch, and one day count lies outside chrono's
\* calendar; a timestamp finer than a second exists in the nanosecond unit
\* only; text reads as a date, as a date-time without or with a zone, or as
\* none of them, and two date-times lie outside the i64 nanosecond range
\* (1677-09-21 .. 2262-04-11); the integers are a day count and a nanosecond count; a
\* dictionary holds the names of the variants of an enum.
SlotValues(data_type) ==
    CASE data_type.id = "Date32" ->
            { Date32V(DaysFromCivil(2024, 1, 1)), Date32V(-1), Date32V(I32_MAX) }
      [] data_type.id = "Timestamp" ->
            IF data_type.unit = "ns"
            THEN { TimestampV(Nanos(DaysFromCivil(2023, 6, 15), 52200, 0)),
                   TimestampV(Nanos(-1, 86399, 500000000)) }
            ELSE { TimestampV(Nanos(DaysFromCivil(2023, 6, 15), 52200, 0)) }
      [] data_type.id = "Date64" -> { TimestampV(Nanos(DaysFromCivil(2024, 1, 1), 0, 0)) }
      [] data_type.id \in { "Utf8", "LargeUtf8" } ->
            { TextV(FmtDate, DateOf(2024, 1, 1)),
              TextV(FmtNaive, DateTimeOf(2023, 6, 15, 14, 30, 0, 0)),
              TextV(FmtRfcZ, DateTimeOf(2023, 6, 15, 14, 30, 0, 0)),
              TextV(FmtNaive, DateTimeOf(2300, 1, 1, 0, 0, 0, 0)),
              TextV(FmtRfcZ, DateTimeOf(1600, 1, 1, 0, 0, 0, 0)),
              StrV("not a date") }
      [] data_type.id = "Int32" -> { IntV(DaysFromCivil(2024, 1, 1)) }
      [] data_type.id = "Int64" -> { IntV(1000) }
      [] data_type.id = "Dictionary" -> { StrV("Pending"), StrV("Completed") }

\* The data types of the column under reconciliation.
SubjectTypes ==
    { Date32, Date64, Utf8, LargeUtf8, Primitive("Int32"), Primitive("Int64"),
      Dictionary("Utf8"), Dictionary("LargeUtf8") }
        \cup { Timestamp(unit, tz) : unit \in TimeUnits, tz \in Zones }

\* The arrays of n slots of a data type; a null only where the field is
\* nullable.
Arrays(data_type, nullable, n) ==
    { Array(data_type, values) :
        values \in [1 .. n -> IF nullable THEN SlotValues(data_type) \cup { NullV }
                                         ELSE SlotValues(data_type)] }

\* The batches of the model: a column named "when" of one of the subject
\* types, and a column "id" of Int64 before or after it.
Batches ==
    LET id(n) == Array(Primitive("Int64"), [r \in 1 .. n |-> IntV(r)])
        two(a, nullable, first) ==
            IF first
            THEN [schema  |-> << ArrowField("when", a.data_type, nullable),
                                 ArrowField("id", Primitive("Int64"), FALSE) >>,
                  columns |-> << a, id(Len(a.values)) >>]
            ELSE [schema  |-> << ArrowField("id", Primitive("Int64"), FALSE),
                                 ArrowField("when", a.data_type, nullable) >>,
                  columns |-> << id(Len(a.values)), a >>]
    IN  UNION { { two(a, nullable, first) :
                    a \in Arrays(data_type, nullable, n), first \in BOOLEAN } :
                  data_type \in SubjectTypes, nullable \in BOOLEAN, n \in 1 .. MaxRows }

\* The signal maps of the model: the column "when" is not a key, or it
\* carries one of the three temporal tags or the name of a wrapper.
SignalMaps ==
    { EmptyMap } \cup
    { Insert(EmptyMap, "when", tag) :
        tag \in { "NaiveDate", "NaiveDateTime", "DateTimeUtc", "UserId" } }

InitBatch ==
    /\ T = <<>>
    /\ records = <<>>
    /\ df = NotCalled
    /\ steps = <<>>
    /\ back = NotCalled
    /\ df_again = NotCalled
    /\ pc = "batch"
    /\ batch \in Batches
    /\ chrono_types \in SignalMaps
    /\ out = NotCalled
    /\ threads = <<>>
    /\ derivations = NotDerived

\* let converted_rb = convert_chrono_columns(rb, &chrono_types);
Forward ==
    /\ pc = "batch"
    /\ out' = convert_chrono_columns(batch, chrono_types)
    /\ pc' = "forward"
    /\ UNCHANGED << callerVars, batch, chrono_types, threads, derivations >>

\* let converted_batch = convert_from_chrono_columns(batch);
Reverse ==
    /\ pc = "batch"
    /\ out' = convert_from_chrono_columns(batch)
    /\ pc' = "reverse"
    /\ UNCHANGED << callerVars, batch, chrono_types, threads, derivations >>

\* let converted_rb = convert_chrono_columns(rb, &chrono_types)?;
\* let final_rb = convert_dictionary_to_strings(converted_rb)?;
Normalize ==
    /\ pc = "batch"
    /\ LET then(c) == IF c.ok THEN convert_dictionary_to_strings(c.val) ELSE c
       IN  out' = Let1(convert_chrono_columns(batch, chrono_types), then)
    /\ pc' = "normalized"
    /\ UNCHANGED << callerVars, batch, chrono_types, threads, derivations >>

\* convert_chrono_columns applied to the batch convert_from_chrono_columns
\* returned.
Restore ==
    /\ pc = "reverse"
    /\ out.ok
    /\ out' = convert_chrono_columns(out.val, chrono_types)
    /\ pc' = "restored"
    /\ UNCHANGED << callerVars, batch, chrono_types, threads, derivations >>

NextBatch == Forward \/ Reverse \/ Normalize \/ Restore

BatchSpec == InitBatch /\ [][NextBatch]_vars

\* ------------------------------------------------------------------------
\* The program: threads that convert their own records, or read clones of
\* one DataFrame behind an Arc (src/tests/multithreading.rs).
\* ------------------------------------------------------------------------

NumThreads == 2

Threads == 1 .. NumThreads

\* The records of the base dataset and of the threads: TestRecord values
\* that differ in their name.
ThreadRecords ==
    { r \in Records(TestRecord) : r[3] = FloatV("85.5") /\ r[4] = BoolV(TRUE) }

\* The Vec a thread builds for itself: the base dataset in reverse order, so
\* that no two of its rows are in the place they have in the base dataset.
OwnRecords(base) == [r \in 1 .. Len(base) |-> base[Len(base) + 1 - r]]

\* One thread: what it does (a writer converts its own records and reads
\* them back, a reader reads a clone of the shared frame), the records and
\* the frame it owns, its result and its position.
Thread(kind, own, frame, result, at) ==
    [kind |-> kind, own |-> own, frame |-> frame, result |-> result, at |-> at]

\* A frame of two rows or more as the engine may hold it: in one chunk or
\* split after its first row.
Chunkings(frame) ==
    IF height(frame) < 2 THEN { frame }
    ELSE { frame,
           DataFrame(frame.schema,
                     << [i \in 1 .. Len(frame.schema) |-> SubSeq(frame.chunks[1][i], 1, 1)],
                        [i \in 1 .. Len(frame.schema) |->
                           SubSeq(frame.chunks[1][i], 2, height(frame))] >>) }

InitThreads ==
    /\ T = TestRecord
    /\ records \in UNION { [1 .. n -> ThreadRecords] : n \in 1 .. MaxRows }
    /\ df \in { Ok(frame) : frame \in Chunkings(to_dataframe(T, records).val) }
    /\ steps = <<>>
    /\ back = NotCalled
    /\ df_again = NotCalled
    /\ pc = "spawned"
    /\ batch = NoBatch
    /\ chrono_types = EmptyMap
    /\ out = NotCalled
    /\ threads \in [Threads -> { Thread(kind, OwnRecords(records), NotCalled, NotCalled, "spawned") :
                                   kind \in { "reader", "writer" } }]
    /\ derivations = NotDerived

\* A rechunk that reaches the frame behind the shared handle as well as the
\* clone.
Rechunked_through_handle(owned, shared) ==
    [owned |-> as_single_chunk(owned), shared |-> as_single_chunk(shared)]

\* dataframe_to_arrow(mut df) { df.as_single_chunk(); .. }: df is the value
\* the call owns; the frame behind the shared handle keeps its chunks.
Rechunked(owned, shared) == [owned |-> as_single_chunk(owned), shared |-> shared]

\* A writer: let df = to_dataframe(&records);
ThreadToDataframe(t) ==
    /\ threads[t].kind = "writer" /\ threads[t].at = "spawned"
    /\ threads' = [threads EXCEPT ![t].frame = to_dataframe(T, threads[t].own),
                                  ![t].at = "framed"]
    /\ UNCHANGED << callerVars, pc, batchVars, derivations >>

\* A reader: (*df_clone).clone()
ThreadClone(t) ==
    /\ threads[t].kind = "reader" /\ threads[t].at = "spawned"
    /\ threads' = [threads EXCEPT ![t].frame = df, ![t].at = "framed"]
    /\ UNCHANGED << callerVars, pc, batchVars, derivations >>

\* from_dataframe(frame), its first statement: df.as_single_chunk()
ThreadRechunk(t) ==
    /\ threads[t].at = "framed" /\ threads[t].frame.ok
    /\ \E run \in { Rechunked(threads[t].frame.val, df.val) } :
          /\ threads' = [threads EXCEPT ![t].frame = Ok(run.owned), ![t].at = "rechunked"]
          /\ df' = Ok(run.shared)
    /\ UNCHANGED << T, records, steps, back, df_again, pc, batchVars, derivations >>

\* from_dataframe(frame), the rest: export, reverse reconciliation and the
\* codec, batch after batch.
ThreadDecode(t) ==
    /\ threads[t].at = "rechunked"
    /\ threads' = [threads EXCEPT ![t].result = from_dataframe(T, threads[t].frame.val),
                                  ![t].at = "done"]
    /\ UNCHANGED << callerVars, pc, batchVars, derivations >>

NextThreads ==
    \E t \in Threads :
        \/ ThreadToDataframe(t)
        \/ ThreadClone(t)
        \/ ThreadRechunk(t)
        \/ ThreadDecode(t)

ThreadSpec == InitThreads /\ [][NextThreads]_vars

\* ------------------------------------------------------------------------
\* The type probe on one sample record (src/src/lib.rs 301-305, 752-754)
\* ------------------------------------------------------------------------

\* The sample is rows[0] of the caller's records, of a flat record type or of
\* one whose fields hold structs and sequences.
InitDetect ==
    /\ T \in RecordTypes \cup CompoundRecordTypes
    /\ records \in [1 .. 1 -> Records(T)]
    /\ df = NotCalled
    /\ steps = <<>>
    /\ back = NotCalled
    /\ df_again = NotCalled
    /\ pc = "sample"
    /\ batch = NoBatch
    /\ chrono_types = EmptyMap
    /\ out = NotCalled
    /\ threads = <<>>
    /\ derivations = NotDerived

\* let chrono_types = detect_chrono_types(&rows[0])?
DetectChronoTypes ==
    /\ pc = "sample"
    /\ out' = detect_chrono_types(T, records[1])
    /\ chrono_types' = IF out'.ok THEN out'.val ELSE chrono_types
    /\ pc' = "detected"
    /\ UNCHANGED << callerVars, batch, threads, derivations >>

NextDetect == DetectChronoTypes

DetectSpec == InitDetect /\ [][NextDetect]_vars

\* ------------------------------------------------------------------------
\* Schema inference (src/src/lib.rs 742-749)
\* ------------------------------------------------------------------------

\* A derivation of serde_arrow that fails.
TracingError == Err(Error("SerdeArrowError", "cannot trace the type", NullV))

\* to_dataframe is past its is_empty test.  Each derivation of serde_arrow
\* returns its fields or fails.
InitInfer ==
    /\ T \in RecordTypes
    /\ records \in Vecs(T) \ { <<>> }
    /\ df = NotCalled
    /\ steps = << "is_empty" >>
    /\ back = NotCalled
    /\ df_again = NotCalled
    /\ pc = "rows"
    /\ batch = NoBatch
    /\ chrono_types = EmptyMap
    /\ out = NotCalled
    /\ threads = <<>>
    /\ derivations \in
          { [traced |-> tr, sampled |-> sa] :
              tr \in { from_type(T, tracing_options), TracingError },
              sa \in { from_samples(T, records, tracing_options), TracingError } }

\* let basic_fields = match from_type { Ok(f) => f, Err(_) => from_samples(..)? };
InferSchema ==
    /\ pc = "rows"
    /\ LET inferred == infer_basic_fields(derivations.traced, derivations.sampled)
       IN  /\ out' = inferred.result
           /\ steps' = inferred.steps
    /\ pc' = "inferred"
    /\ UNCHANGED << T, records, df, back, df_again, batch, chrono_types, threads, derivations >>

NextInfer == InferSchema

InferSpec == InitInfer /\ [][NextInfer]_vars

\* ------------------------------------------------------------------------
\* Properties
\* ------------------------------------------------------------------------

\* to_dataframe(&records) has returned.
Encoded == pc # "start"

\* from_dataframe(df) has returned.
Decoded == pc \in { "decoded", "reencoded" }

IsPlain(f) == f.ty \in { "i32", "i64", "f64", "bool", "String" } /\ f.wrap = ""

IsInteger(f) == f.ty \in { "i32", "i64" } /\ f.wrap = ""

IsText(f) == f.ty = "String" /\ f.wrap = ""

IsTemporal(f) == f.ty \in { "NaiveDate", "NaiveDateTime", "DateTimeUtc" } /\ f.wrap = ""

AllPlain(t) == \A i \in 1 .. Len(t) : IsPlain(t[i])

HasTemporal(t) == \E i \in 1 .. Len(t) : IsTemporal(t[i])

\* Column i of a frame, top to bottom, whatever its chunks.
ColumnOf(frame, i) == ConcatChunks(frame.chunks, i, Len(frame.chunks))

\* The frame that holds row r of a frame and nothing else.
RowOf(frame, r) ==
    DataFrame(frame.schema,
              << [i \in 1 .. Len(frame.schema) |-> << ColumnOf(frame, i)[r] >>] >>)

\* The signal map to_dataframe builds from records[0].
SignalMap == detect_chrono_types(T, records[1]).val

\* The dtype the engine shows for a field of a plain or temporal type.
ExpectedDtype(f) ==
    CASE f.ty = "i32"           -> Primitive("Int32")
      [] f.ty = "i64"           -> Primitive("Int64")
      [] f.ty = "f64"           -> Primitive("Float64")
      [] f.ty = "bool"          -> Primitive("Boolean")
      [] f.ty = "String"        -> Primitive("String")
      [] f.ty = "NaiveDate"     -> Primitive("Date")
      [] f.ty = "NaiveDateTime" -> DataType("Datetime", "ns", "", "")
      [] f.ty = "DateTimeUtc"   -> DataType("Datetime", "ns", "UTC", "")

\* C1: for every non-empty Vec of records whose fields are only integers,
\* floats, booleans, text and Options of those (None anywhere), to_dataframe
\* succeeds, from_dataframe of its frame succeeds, and the records it
\* returns equal the originals.
C1_PlainRoundTrip ==
    AllPlain(T) /\ records # <<>> =>
        /\ Encoded => df.ok
        /\ Decoded => back.ok /\ back.val = records

\* C1 happens: a record with None in every Option and a record with Some in
\* every Option have been converted and read back.
C1_Witness ==
    /\ pc = "decoded" /\ T = OptionalRecord /\ Len(records) = 2
    /\ \A i \in 2 .. 5 : records[1][i].null /\ ~records[2][i].null
    /\ back.ok /\ back.val = records

\* C2 as stated: for every non-empty Vec of records with NaiveDate,
\* NaiveDateTime and DateTime<Utc> fields (plain or Option, None anywhere),
\* and for every value of those types, from_dataframe(to_dataframe(records))
\* equals records.
C2_TemporalRoundTrip ==
    HasTemporal(T) /\ records # <<>> =>
        /\ Encoded => df.ok
        /\ Decoded => back.ok /\ back.val = records

\* C3: to_dataframe of an empty Vec returns EmptyInput, and the emptiness
\* check is the only step it has executed: no schema inference, no read of
\* records[0], no encoding, no bridging.
C3_EmptyInputFirst ==
    Encoded /\ records = <<>> =>
        /\ df = Err(EmptyInput)
        /\ steps = << "is_empty" >>

\* C3 happens: to_dataframe has returned for an empty Vec.
C3_Witness == pc = "encoded" /\ records = <<>> /\ ~df.ok /\ df.err.kind = "EmptyInput"

\* C4: the DataFrame to_dataframe returns for a non-empty input has as many
\* rows as there are records and one column per field of the record type,
\* named after the fields, in declaration order.
C4_HeightAndColumns ==
    Encoded /\ df.ok =>
        /\ records # <<>>
        /\ height(df.val) = Len(records)
        /\ Len(df.val.schema) = Len(T)
        /\ \A i \in 1 .. Len(T) :
              /\ df.val.schema[i].name = T[i].name
              /\ Len(ColumnOf(df.val, i)) = Len(records)

\* C4 happens: a frame of two rows and seven columns has been returned.
C4_Witness ==
    /\ pc = "encoded" /\ df.ok /\ T = MixedTemporalRecord /\ Len(records) = 2
    /\ height(df.val) = 2 /\ Len(df.val.schema) = 7

\* C5: from_dataframe returns as many records as the frame has rows, and
\* record r is what the row r of the frame decodes to, however the frame is
\* chunked: no row is filtered, duplicated or reordered.
C5_RecordPerRow ==
    Decoded /\ back.ok =>
        /\ Len(back.val) = height(df.val)
        /\ \A r \in 1 .. Len(back.val) :
              from_dataframe(T, RowOf(df.val, r)) = Ok(<< back.val[r] >>)

\* C5 happens: a frame of two chunks, holding two different rows, has been
\* decoded.
C5_Witness ==
    /\ pc = "decoded" /\ back.ok /\ Len(df.val.chunks) = 2
    /\ Len(back.val) = 2 /\ back.val[1] # back.val[2]

\* C6: in the frame to_dataframe returns, the column of a NaiveDate field
\* (plain or Option) is Date, of a NaiveDateTime field Datetime(ns) without
\* zone, of a DateTime<Utc> field Datetime(ns, UTC); no slot of such a
\* column holds text.
C6_NativeTemporalColumns ==
    Encoded /\ df.ok =>
        \A i \in 1 .. Len(T) :
            IsTemporal(T[i]) =>
                /\ df.val.schema[i].dtype = ExpectedDtype(T[i])
                /\ df.val.schema[i].dtype.id # "String"
                /\ \A r \in 1 .. height(df.val) : ColumnOf(df.val, i)[r].form = ""

\* C6 happens: the first record holds None in its three temporal Options
\* and the frame has been returned.
C6_Witness ==
    /\ pc = "encoded" /\ df.ok /\ T = OptionalChronoRecord
    /\ \A i \in 3 .. 5 : records[1][i].null
    /\ df.val.schema[3].dtype.id = "Date"

\* C7: an integer field is no key of the signal map, whatever its name or
\* value; its column has its integer type in the frame; and the field reads
\* back as the same integer.
C7_IntegerStaysInteger ==
    \A i \in 1 .. Len(T) :
        IsInteger(T[i]) =>
            /\ records # <<>> => T[i].name \notin DOMAIN SignalMap
            /\ Encoded /\ df.ok =>
                  /\ df.val.schema[i].dtype = ExpectedDtype(T[i])
                  /\ \A r \in 1 .. Len(records) : ColumnOf(df.val, i)[r] = records[r][i]
            /\ Decoded =>
                  /\ back.ok
                  /\ \A r \in 1 .. Len(records) : back.val[r][i] = records[r][i]

\* C7 happens: calc_min_date: i32 = 20240101 has gone to a frame and back.
C7_Witness ==
    /\ pc = "decoded" /\ T = CustomWrapper /\ back.ok
    /\ records[1][2] = IntV(20240101) /\ back.val[1][2] = IntV(20240101)
    /\ df.val.schema[2].dtype = Primitive("Int32")

\* C8: a text field is no key of the signal map, whatever its content, and
\* its column is a text column holding the same text after to_dataframe.
C8_TextIsNoSignal ==
    \A i \in 1 .. Len(T) :
        IsText(T[i]) =>
            /\ records # <<>> => T[i].name \notin DOMAIN SignalMap
            /\ Encoded /\ df.ok =>
                  /\ df.val.schema[i].dtype = Primitive("String")
                  /\ \A r \in 1 .. Len(records) : ColumnOf(df.val, i)[r] = records[r][i]

\* C8 happens: every record's name reads "2024-01-01" and the frame has
\* been returned.
C8_Witness ==
    /\ pc = "encoded" /\ df.ok /\ T = TestRecord /\ Len(records) = 2
    /\ \A r \in 1 .. 2 : records[r][1] = TextV(FmtDate, DateOf(2024, 1, 1))

C10_FrameRoundTrip ==
    /\ Decoded => back.ok
    /\ pc = "reencoded" =>
          /\ df_again.ok
          /\ height(df_again.val) = height(df.val)
          /\ df_again.val.schema = df.val.schema
          /\ \A i \in 1 .. Len(df.val.schema) :
                ColumnOf(df_again.val, i) = ColumnOf(df.val, i)

\* C10 happens: records with a date-time half a second before the epoch
\* have gone to a frame, back, and to a frame again.
C10_Witness ==
    /\ pc = "reencoded" /\ df_again.ok /\ T = MixedTemporalRecord /\ Len(records) = 2
    /\ records[1][4] = ChronoV(DateTimeOf(1969, 12, 31, 23, 59, 59, 500000000))

\* C11 as stated: a field typed as a single-value wrapper around a calendar
\* date (DateWrapper) is a native Date column in the frame to_dataframe
\* returns, and from_dataframe of that frame returns the identical wrapped
\* value.
C11_WrappedDateIsDate ==
    \A i \in 1 .. Len(T) :
        T[i].wrap = "DateWrapper" /\ records # <<>> =>
            /\ Encoded => df.ok /\ df.val.schema[i].dtype = Primitive("Date")
            /\ Decoded => back.ok /\ back.val = records

\* The frame was built in the engine and from_dataframe has returned.
Read == pc = "read"

\* The columns of the frame are native date columns and text columns only.
DateAndTextFrame ==
    \A i \in 1 .. Len(df.val.schema) : df.val.schema[i].dtype.id \in { "Date", "String" }

\* The index of the frame's column named name.
FrameColumn(name) == CHOOSE i \in 1 .. Len(df.val.schema) : df.val.schema[i].name = name

\* C12: from_dataframe of a frame built in the engine with a native date
\* column and text columns, read as DateRecord (a String and a NaiveDate),
\* succeeds; record r holds the name of row r and the calendar date of the
\* day count stored in row r.
C12_EngineDateFrame ==
    Read /\ T = DateRecord /\ DateAndTextFrame =>
        /\ back.ok
        /\ Len(back.val) = height(df.val)
        /\ \A r \in 1 .. height(df.val) :
              /\ back.val[r][1] = ColumnOf(df.val, FrameColumn("name"))[r]
              /\ back.val[r][2] =
                    ChronoV(CivilFromDays(ColumnOf(df.val, FrameColumn("birth_date"))[r].n))
              /\ DaysFromCivil(back.val[r][2].dt.y, back.val[r][2].dt.m, back.val[r][2].dt.d)
                    = ColumnOf(df.val, FrameColumn("birth_date"))[r].n

\* Two rows with different dates, one of them before the epoch, were read.
C12_Witness ==
    /\ Read /\ T = DateRecord /\ DateAndTextFrame /\ back.ok
    /\ height(df.val) = 2
    /\ back.val[1][2] = ChronoV(DateOf(1990, 5, 15))
    /\ back.val[2][2] = ChronoV(DateOf(1969, 12, 31))

\* The value field f of a record takes from the slot v of its own column.
RecordValue(f, v) ==
    IF f.ty = "NaiveDate" THEN ChronoV(CivilFromDays(v.n)) ELSE v

\* C14 as stated: whatever extra column the frame carries, from_dataframe
\* succeeds, and every record is made of the columns the record type
\* declares and of nothing else.
C14_ExtraColumnsIgnored ==
    Read =>
        /\ back.ok
        /\ Len(back.val) = height(df.val)
        /\ \A r \in 1 .. height(df.val) : \A i \in 1 .. Len(T) :
              back.val[r][i] = RecordValue(T[i], ColumnOf(df.val, FrameColumn(T[i].name))[r])

\* The index of the column "when" of the batch.
When == ColumnIndex(batch, "when")

\* Forward, or reverse, reconciliation of the batch has returned.
ForwardDone == pc = "forward"

ReverseDone == pc = "reverse"

\* The declared type of the column is a native date or timestamp.
IsNativeTemporal(data_type) == data_type.id \in { "Date32", "Date64", "Timestamp" }

\* Every day count of a Date32 column of the batch is a day of chrono's
\* calendar.
DaysInCalendar ==
    \A i \in 1 .. Len(batch.columns) :
        batch.schema[i].data_type.id = "Date32" =>
            \A r \in 1 .. Len(batch.columns[i].values) :
                batch.columns[i].values[r].null \/ InCalendar(batch.columns[i].values[r].n)

\* C13 as stated: reverse reconciliation does not fail on a batch of
\* well-formed native temporal columns, whatever their time unit and zone,
\* and every column declared as a native date or timestamp leaves it as a
\* text column.
C13_TemporalBecomesText ==
    ReverseDone /\ DaysInCalendar =>
        /\ out.ok
        /\ \A i \in 1 .. Len(batch.schema) :
              IsNativeTemporal(batch.schema[i].data_type) =>
                  /\ out.val.schema[i].data_type = Utf8
                  /\ out.val.columns[i].data_type = Utf8

\* What the calls of thread t return when no other thread runs.
Sequential(t) ==
    IF threads[t].kind = "reader" THEN from_dataframe(T, df.val)
    ELSE from_dataframe(T, to_dataframe(T, threads[t].own).val)

StepOrder ==
    << "is_empty", "from_type", "detect_chrono_types", "to_record_batch",
       "convert_chrono_columns", "convert_dictionary_to_strings", "arrow_to_dataframe" >>

\* The position of forward reconciliation among the steps.
ReconcileStep == CHOOSE k \in 1 .. Len(StepOrder) : StepOrder[k] = "convert_chrono_columns"

\* Forward reconciliation of the batch the codec encodes for rows, with the
\* signals of rows[1].
Reconciled(rows) ==
    convert_chrono_columns(to_record_batch(T, from_type(T, tracing_options).val, rows).val,
                           detect_chrono_types(T, rows[1]).val)

\* A call of to_dataframe(rows) that returned result after the steps s: the
\* steps are an initial part of the order; all of them ran exactly when the
\* call returned a frame; an empty input ends the call at the emptiness
\* check with EmptyInput; a failure of forward reconciliation ends it there
\* with the error of that step.
CallInOrder(rows, result, s) ==
    /\ \E k \in 1 .. Len(StepOrder) : s = SubSeq(StepOrder, 1, k)
    /\ result.ok <=> s = StepOrder
    /\ ~result.ok => result.val = <<>>
    /\ Len(rows) = 0 => s = << "is_empty" >> /\ result = Err(EmptyInput)
    /\ Len(rows) > 0 =>
          \E reconciled \in { Reconciled(rows) } :
              IF reconciled.ok THEN result.ok
              ELSE s = SubSeq(StepOrder, 1, ReconcileStep) /\ result = reconciled

TagOfWhen == IF "when" \in DOMAIN chrono_types THEN chrono_types["when"] ELSE ""

\* The column "when" already holds native numbers of its tag: day counts
\* for a date tag, nanosecond counts for a timestamp tag.
NumericForTag ==
    \/ TagOfWhen = "NaiveDate" /\ batch.schema[When].data_type.id \in { "Int32", "Date32" }
    \/ /\ TagOfWhen \in { "NaiveDateTime", "DateTimeUtc" }
       /\ \/ batch.schema[When].data_type.id = "Int64"
          \/ batch.schema[When].data_type = Timestamp("ns", IF TagOfWhen = "DateTimeUtc"
                                                             THEN "UTC" ELSE "")

\* The native type forward reconciliation gives a column carrying the tag.
NativeTypeOf(tag) ==
    CASE tag = "NaiveDate"     -> Date32
      [] tag = "NaiveDateTime" -> Timestamp("ns", "")
      [] tag = "DateTimeUtc"   -> Timestamp("ns", "UTC")

\* C18 as stated: forward reconciliation of a flagged column that already
\* holds native day counts (date tag) or nanosecond counts (timestamp tag)
\* does not fail, declares the column with the native type of its tag and
\* keeps the number and the nulls of every row.
C18_NumericIsCast ==
    ForwardDone /\ NumericForTag =>
        /\ out.ok
        /\ out.val.schema[When].data_type = NativeTypeOf(TagOfWhen)
        /\ \A r \in 1 .. num_rows(batch) :
              /\ out.val.columns[When].values[r].null = batch.columns[When].values[r].null
              /\ out.val.columns[When].values[r].n = batch.columns[When].values[r].n
              /\ out.val.columns[When].values[r].ts = batch.columns[When].values[r].ts

\* The column "when" is a text column that carries one of the three
\* temporal tags.
FlaggedText ==
    /\ TagOfWhen \in { "NaiveDate", "NaiveDateTime", "DateTimeUtc" }
    /\ batch.schema[When].data_type.id \in { "Utf8", "LargeUtf8" }

\* The text v parses under the format of the tag.
Parses(tag, v) ==
    CASE tag = "NaiveDate"     -> NaiveDate_parse(v).ok
      [] tag = "NaiveDateTime" -> NaiveDateTime_parse(v).ok
      [] tag = "DateTimeUtc"   -> parse_from_rfc3339(v).ok

\* Row r of the column "when" holds a text that does not parse under the
\* column's tag.
Unparseable(r) ==
    /\ ~batch.columns[When].values[r].null
    /\ ~Parses(TagOfWhen, batch.columns[When].values[r])

\* C19: when a non-null value of a flagged text column does not parse under
\* the format of its tag, at whatever row, forward reconciliation returns
\* no batch but a ConversionError that quotes the offending text: the first
\* such value in row order.
C19_UnparseableFails ==
    ForwardDone /\ FlaggedText /\ (\E r \in 1 .. num_rows(batch) : Unparseable(r)) =>
        /\ ~out.ok
        /\ out.val = <<>>
        /\ out.err.kind = "ConversionError"
        /\ \E r \in 1 .. num_rows(batch) :
              /\ Unparseable(r)
              /\ \A j \in 1 .. r - 1 : ~Unparseable(j)
              /\ out.err.arg = batch.columns[When].values[r]

\* The second row of a column tagged NaiveDate does not parse, the first
\* does: the error quotes the text of the second row.
C19_Witness ==
    /\ ForwardDone /\ FlaggedText /\ TagOfWhen = "NaiveDate"
    /\ num_rows(batch) = 2
    /\ ~Unparseable(1) /\ ~batch.columns[When].values[1].null
    /\ Unparseable(2)
    /\ ~out.ok /\ out.err.arg = StrV("not a date")

\* Row r of column i is null in the result exactly when it is null in the
\* batch.
SameNulls ==
    \A i \in 1 .. Len(batch.columns) : \A r \in 1 .. num_rows(batch) :
        out.val.columns[i].values[r].null <=> batch.columns[i].values[r].null

\* The column "when" is a native temporal column that reverse
\* reconciliation rewrites: a date, a millisecond date, or a timestamp in
\* nanoseconds.
RewrittenByReverse ==
    \/ batch.schema[When].data_type.id \in { "Date32", "Date64" }
    \/ batch.schema[When].data_type.id = "Timestamp" /\ batch.schema[When].data_type.unit = "ns"

\* C20: nulls keep their rows and are neither parsed nor formatted.  Forward
\* reconciliation of a flagged text column whose non-null values parse
\* succeeds whatever rows are null, and a row is null after it exactly when
\* it was null before; the same holds for reverse reconciliation of a
\* native temporal column, and for every column of a batch either step
\* returns.
C20_NullsKeepPlace ==
    /\ ForwardDone /\ FlaggedText /\ (\A r \in 1 .. num_rows(batch) : ~Unparseable(r))
           => out.ok
    /\ ReverseDone /\ RewrittenByReverse /\ DaysInCalendar => out.ok
    /\ (ForwardDone \/ ReverseDone) /\ out.ok => SameNulls

\* Reverse reconciliation of a date column whose first row is null and
\* whose second row is a day: the text column has a null first row and the
\* text of the day in the second.
C20_Witness ==
    /\ ReverseDone /\ out.ok
    /\ batch.schema[When].data_type = Date32
    /\ num_rows(batch) = 2
    /\ batch.columns[When].values[1].null
    /\ ~batch.columns[When].values[2].null
    /\ out.val.columns[When].values[1].null
    /\ out.val.columns[When].values[2] = TextV(FmtDate, DateOf(2024, 1, 1))

\* The field is a single-value wrapper whose name is no temporal marker.
IsUnrecognizedWrapper(f) == f.wrap \in { "UserId", "Email" }

\* The batch the codec encodes for the caller's records.
CodecBatch == to_record_batch(T, from_type(T, tracing_options).val, records).val

\* C21: a field that is a single-value wrapper with an unrecognized name
\* (UserId(i64), Email(String)) is a key of the signal map, under the
\* wrapper's name, when the sample record holds a wrapper in it; its column leaves forward reconciliation with the type
\* and the values the codec produced, the frame shows it with that type,
\* and from_dataframe returns the field of every record unchanged.
C21_UnrecognizedWrapperUntouched ==
    \A i \in 1 .. Len(T) :
        IsUnrecognizedWrapper(T[i]) /\ Encoded /\ records # <<>> =>
            /\ ~records[1][i].null =>
                  T[i].name \in DOMAIN SignalMap /\ SignalMap[T[i].name] = T[i].wrap
            /\ Reconciled(records).ok
            /\ Reconciled(records).val.schema[i] = CodecBatch.schema[i]
            /\ Reconciled(records).val.columns[i] = CodecBatch.columns[i]
            /\ df.ok
            /\ df.val.schema[i].dtype = PolarsType(TracedType(T[i], tracing_options))
            /\ ColumnOf(df.val, i) = [r \in 1 .. Len(records) |-> records[r][i]]
            /\ Decoded => back.ok /\ \A r \in 1 .. Len(records) :
                                        back.val[r][i] = records[r][i]

\* Two NewtypeRecords with different user ids were converted and read back.
C21_Witness ==
    /\ T = NewtypeRecord /\ Decoded /\ back.ok
    /\ Len(records) = 2
    /\ records[1][1] # records[2][1]
    /\ back.val = records
    /\ SignalMap = Insert(Insert(EmptyMap, "user_id", "UserId"), "email", "Email")

\* C22 as stated: detection does not depend on the values of the sample:
\* every record of the caller's Vec gives the signal map the first record
\* gives, also when an optional field holds Some in one and None in the
\* other.
C22_DetectionIgnoresValues ==
    Encoded =>
        \A r \in 1 .. Len(records) :
            detect_chrono_types(T, records[r]) = detect_chrono_types(T, records[1])

\* The sample's field of the given name, when it has one.
IsSampleField(k) == \E i \in 1 .. Len(T) : T[i].name = k

SampleField(k) == T[CHOOSE i \in 1 .. Len(T) : T[i].name = k]

\* The field's own declared type is one of the chrono types, directly or
\* under one Option, or a single-value wrapper.
IsSignalField(f) == ChronoTag(type_name(f)) # "" \/ f.wrap # ""

\* C23 as stated: every key of the signal map is the name of a field of the
\* sample record whose own value is a recognized temporal type or a
\* single-value wrapper, also when field values are structs or sequences.
C23_KeysAreSignalFields ==
    pc = "detected" =>
        \A k \in DOMAIN chrono_types : IsSampleField(k) /\ IsSignalField(SampleField(k))


\* The encoded batch has been reconciled and normalized.
NormalizeDone == pc = "normalized"

IsDictionary(data_type) == data_type.id = "Dictionary"

\* C24 as stated: every dictionary-coded text column of the batch is recast
\* to plain text with the same values and nulls, whether or not its name is
\* in the signal map, and the two steps never fail because it is flagged.
C24_DictionaryBecomesText ==
    NormalizeDone =>
        \A i \in 1 .. Len(batch.schema) :
            IsDictionary(batch.schema[i].data_type) =>
                /\ out.ok
                /\ out.val.schema[i].data_type \in { Utf8, LargeUtf8 }
                /\ out.val.columns[i].data_type = out.val.schema[i].data_type
                /\ out.val.columns[i].values = batch.columns[i].values


\* The batch a step returned has the rows, the columns, the column order,
\* the names and the nullability of the batch it was given.
SameShape ==
    /\ num_rows(out.val) = num_rows(batch)
    /\ Len(out.val.schema) = Len(batch.schema)
    /\ Len(out.val.columns) = Len(batch.columns)
    /\ \A i \in 1 .. Len(batch.schema) :
          /\ out.val.schema[i].name = batch.schema[i].name
          /\ out.val.schema[i].nullable = batch.schema[i].nullable
          /\ Len(out.val.columns[i].values) = Len(batch.columns[i].values)

\* Column i leaves the step as it entered it.
Untouched(i) ==
    /\ out.val.schema[i] = batch.schema[i]
    /\ out.val.columns[i] = batch.columns[i]

\* The name of column i carries one of the three temporal tags.
HasTemporalTag(i) ==
    /\ batch.schema[i].name \in DOMAIN chrono_types
    /\ chrono_types[batch.schema[i].name] \in { "NaiveDate", "NaiveDateTime", "DateTimeUtc" }

\* C25: the batch forward reconciliation returns has the row count, the
\* column count, the column order, the column names and the nullability of
\* the batch it was given, and a column whose name is not a key of the
\* signal map, or whose tag is none of the three temporal tags, has its
\* declared type and its values unchanged.
C25_ForwardKeepsShape ==
    ForwardDone /\ out.ok =>
        /\ SameShape
        /\ \A i \in 1 .. Len(batch.schema) : ~HasTemporalTag(i) => Untouched(i)

C25_Witness ==
    /\ ForwardDone
    /\ out.ok
    /\ When = 2
    /\ HasTemporalTag(When)
    /\ ~batch.schema[When].nullable
    /\ num_rows(batch) = 2
    /\ out.val.schema[When] = ArrowField("when", Date32, FALSE)
    /\ out.val.columns[1] = batch.columns[1]


\* C26: the batch reverse reconciliation returns has the row count, the
\* column count, the column order, the column names and the nullability of
\* the batch it was given; a column whose declared type is not a native
\* date or timestamp has its type and values unchanged, whatever its name
\* and whatever the signal map, and every other column is declared as text.
C26_ReverseByDeclaredType ==
    ReverseDone /\ out.ok =>
        /\ SameShape
        /\ \A i \in 1 .. Len(batch.schema) :
              IF IsNativeTemporal(batch.schema[i].data_type)
              THEN /\ out.val.schema[i].data_type = Utf8
                   /\ out.val.columns[i].data_type = Utf8
              ELSE Untouched(i)

C26_Witness ==
    /\ ReverseDone
    /\ out.ok
    /\ When = 1
    /\ batch.schema[When] = ArrowField("when", Timestamp("ns", "UTC"), TRUE)
    /\ num_rows(batch) = 2
    /\ batch.columns[When].values[1].null
    /\ ~batch.columns[When].values[2].null
    /\ out.val.schema[When] = ArrowField("when", Utf8, TRUE)
    /\ Untouched(2)


\* Schema inference has returned.
Inferred == pc = "inferred"

Ran(step) == \E k \in 1 .. Len(steps) : steps[k] = step

\* Step a is run, and before any run of step b.
RanBefore(a, b) ==
    \E k \in 1 .. Len(steps) : steps[k] = a /\ \A j \in 1 .. k : steps[j] # b

\* C27: the static derivation is tried first, and the sample-based one is
\* run only when the static one fails; inference fails only if both fail;
\* when the static derivation succeeds the schema is the one it returned,
\* which the values of the samples do not influence.
C27_StaticFirst ==
    Inferred =>
        /\ RanBefore("from_type", "from_samples")
        /\ Ran("from_samples") <=> ~derivations.traced.ok
        /\ ~out.ok <=> ~derivations.traced.ok /\ ~derivations.sampled.ok
        /\ derivations.traced.ok => out = from_type(T, tracing_options)
        /\ ~derivations.traced.ok /\ derivations.sampled.ok => out = derivations.sampled

C27_Witness ==
    /\ Inferred
    /\ T = OptionalRecord
    /\ derivations.traced.ok
    /\ derivations.sampled.ok
    /\ derivations.sampled # derivations.traced
    /\ out = derivations.traced


\* Forward reconciliation has been applied to what reverse reconciliation
\* returned.
RestoreDone == pc = "restored"

\* The column "when" is a native date or a nanosecond timestamp, without a
\* zone or in UTC, and the signal map carries the tag of its type.
NativeWithMatchingTag ==
    /\ TagOfWhen \in { "NaiveDate", "NaiveDateTime", "DateTimeUtc" }
    /\ batch.schema[When].data_type = NativeTypeOf(TagOfWhen)

\* C28 as stated: for every native date column and every nanosecond
\* timestamp column, with or without the UTC zone, nulls allowed, reverse
\* reconciliation returns a batch, and forward reconciliation of that batch
\* under the matching tag returns the column with its declared type and
\* the value of every row.
C28_ReverseThenForward ==
    pc # "batch" /\ NativeWithMatchingTag =>
        /\ ReverseDone => out.ok
        /\ RestoreDone =>
              /\ out.ok
              /\ out.val.schema[When] = batch.schema[When]
              /\ out.val.columns[When] = batch.columns[When]


\* The column "when" is text flagged with one of the two date-time tags.
FlaggedDateTimeText == FlaggedText /\ TagOfWhen \in { "NaiveDateTime", "DateTimeUtc" }

\* Row r of the column "when" holds a text that parses under the column's
\* tag and whose nanosecond count since the epoch does not fit an i64.
Overflows(r) ==
    /\ ~batch.columns[When].values[r].null
    /\ Parses(TagOfWhen, batch.columns[When].values[r])
    /\ ~timestamp_nanos_opt(batch.columns[When].values[r].dt).some

\* C29 as stated: when a value of a flagged date-time text column parses
\* but its nanosecond count does not fit an i64, forward reconciliation
\* returns a ConversionError, and a column it returns holds in every row
\* the count of the instant the text of that row denotes.
C29_OverflowFails ==
    ForwardDone /\ FlaggedDateTimeText =>
        /\ (\E r \in 1 .. num_rows(batch) : Overflows(r)) =>
              ~out.ok /\ out.err.kind = "ConversionError"
        /\ out.ok =>
              \A r \in 1 .. num_rows(batch) :
                  ~batch.columns[When].values[r].null =>
                      from_timestamp_nanos(out.val.columns[When].values[r].ts)
                          = batch.columns[When].values[r].dt


\* C30 as stated: for every day count of a native date column, also one
\* outside the calendar of the date library, reverse reconciliation returns
\* either the column of the "YYYY-MM-DD" texts of the days or a
\* ConversionError, and ends in no other way.
C30_EveryDayCountHandled ==
    ReverseDone /\ batch.schema[When].data_type = Date32 =>
        IF out.ok
        THEN \A r \in 1 .. num_rows(batch) :
                 ~batch.columns[When].values[r].null =>
                     out.val.columns[When].values[r]
                         = TextV(FmtDate, CivilFromDays(batch.columns[When].values[r].n))
        ELSE out.err.kind = "ConversionError"


====
